---- MODULE Spec2Model ----
(***************************************************************************)
(* A model of plappy's port layer: plappy/io.py (IO, Input, Output),       *)
(* plappy/core.py (Connectable) and plappy/samplebuffer.py (SampleBuffer). *)
(* Ports are connected and disconnected, loaded, pushed, flushed and read. *)
(***************************************************************************)
EXTENDS Integers, FiniteSets, Sequences, TLC

\* Number of Input and Output objects that are constructed.
NumInputs == 3
NumOutputs == 2

Inputs == {<<"Input", n>> : n \in 1..NumInputs}
Outputs == {<<"Output", n>> : n \in 1..NumOutputs}
Ports == Inputs \cup Outputs

\* type(self).__name__ of a port
Kind(p) == p[1]

\* A MultiIO object.  It is a Connectable, with connections of its own, and
\* no port: it has no buffer and its connect_check is Connectable's.
Multi == <<"MultiIO", 1>>

\* The ports are constructed in this order: the Inputs, then the Outputs.
PortIndex(p) == IF Kind(p) = "Input" THEN p[2] ELSE NumInputs + p[2]

\* config.bufstate
empty == 0
filled == 1
ready_to_push == 2

\* The SampleBuffer objects that can exist besides those of the ports, the
\* numpy arrays that can exist at one time, and the values an array can hold.
MaxExternal == 2
MaxArrays == 3
NumValues == 1

\* The number of disconnect calls in a run of connects and disconnects.
MaxDisconnects == 1

\* The number of times a connect call is repeated.
MaxRepeats == 2

\* The number of add_io and add_subdevice calls made on one Device.
MaxAdds == 4

\* The length of a version string.
MaxVersionLen == 5
MaxMembers == 2

\* The number of times a DeviceCollection is given a subdevice directly.
MaxConsumes == 1
MaxOps == 2

\* One SampleBuffer per port, the others, and the one that IO.load creates
\* while the port still holds the one it replaces.
MaxHandles == NumInputs + NumOutputs + MaxExternal + 1
Handles == 1..MaxHandles
SetIds == 1..MaxHandles
ArrayIds == 1..MaxArrays
Values == 1..NumValues

\* Python's None, and the value of numpy.copy(None)
None == 0
NoneObject == 0 - 1
\* a SampleBuffer, set or array that does not exist
NoSet == None
Unallocated == 0 - 2
\* what an array holds once the caller of read has written into it
Mutated == 0 - 3

VARIABLES
    connections,    \* connections of every port, and of the MultiIO once
                    \* a port is connected to it: a set of Connectables
    bufstate,       \* io.bufstate for every port
    buffer,         \* io.buffer for every port: a SampleBuffer
    array,          \* SampleBuffer.array: an array or None
    refs,           \* SampleBuffer.refs: a set object
    refset,         \* the members of every set object
    contents,       \* the data of every array
    call,           \* the last call made on a port and how it ended
    stage,          \* progress of the three-port scenario
    triple,         \* the three ports of the scenario
    disconnects,    \* the number of disconnect calls made so far
    container,      \* device.container for every device: a collection or None
    subdevices,     \* the subdevices of every DeviceCollection, in order
    dev             \* the dicts ios and subdevices of one Device

----------------------------------------------------------------------------
(* Exceptions: the class that is raised and the labels its message names.  *)
(* SelfConnectionError is a subclass of ConnectionError.                   *)

NoError == [class |-> "none", labels |-> <<>>]

IsConnectionError(e) == e.class \in {"ConnectionError", "SelfConnectionError"}

----------------------------------------------------------------------------
(* IO.connected, IO.disconnected                                           *)

\* Connectable.connected returns False, so this is `io in self.connections`
connected(c, self, io) == io \in c[self]

\* Connectable.disconnected returns False, so this is the length test
disconnected(c, self) == Cardinality(c[self]) = 0

----------------------------------------------------------------------------
(* IO.connect_check / Output.connect_check: the exception raised by        *)
(* self.connect_check(conn), or NoError.                                   *)

\* A check that lets two Outputs be connected.
connect_check_self_only(self, conn) ==
    IF conn = self
        THEN [class |-> "SelfConnectionError", labels |-> <<self>>]
        ELSE NoError

connect_check(self, conn) ==
    IF Kind(self) = "MultiIO" THEN NoError
    ELSE IF conn = self
        THEN [class |-> "SelfConnectionError", labels |-> <<self>>]
        ELSE IF Kind(self) = "Output" /\ Kind(conn) = "Output"
            THEN [class |-> "ConnectionError", labels |-> <<self, conn>>]
            ELSE NoError

----------------------------------------------------------------------------
(* IO.connect                                                              *)

\* conn.connections | self.connections
connection_union(c, self, conn) == c[conn] \cup c[self]

\* A connect without its first two checks.
pair_check_skipped(self, conn) == NoError

\* The exception that the first two checks raise (in call order).
pair_check(self, conn) ==
    IF connect_check(self, conn) # NoError
        THEN connect_check(self, conn)
        ELSE connect_check(conn, self)

\* The exceptions that the checks of the loop over connection_union raise:
\* the loop runs over a set, so which failing check is met first depends on
\* the iteration order.
union_check_errors(c, self, conn) ==
    LET u == connection_union(c, self, conn) IN
    UNION { { connect_check(x, y) : y \in u \ {x} } : x \in u }
    \cup { connect_check(self, x) : x \in u }
    \cup { connect_check(conn, x) : x \in u }
    \cup { connect_check(x, self) : x \in u }
    \cup { connect_check(x, conn) : x \in u }

\* Assignments that leave out conn.connections.add(self).
connect_commit_one_sided(c, self, conn) ==
    LET u  == connection_union(c, self, conn)
        c1 == [c EXCEPT ![self] = u \cup {conn}, ![conn] = u]
    IN  [q \in DOMAIN c |->
            IF q \in u THEN c1[q] \cup {self, conn} ELSE c1[q]]

\* Assignments that leave out the loop over the union.
connect_commit_pair_only(c, self, conn) ==
    LET u  == connection_union(c, self, conn)
    IN  [c EXCEPT ![self] = u \cup {conn}, ![conn] = u \cup {self}]

\* Assignments that add the edge between self and conn and nothing else.
connect_commit_edge_only(c, self, conn) ==
    [c EXCEPT ![self] = @ \cup {conn}, ![conn] = @ \cup {self}]

\* The assignments after the checks.
connect_commit(c, self, conn) ==
    LET u  == connection_union(c, self, conn)
        c1 == [c EXCEPT ![self] = u \cup {conn}, ![conn] = u \cup {self}]
    IN  [q \in DOMAIN c |->
            IF q \in u THEN c1[q] \cup {self, conn} ELSE c1[q]]

\* The assignments of a connect that adds the edges of the pair before the
\* loop over the union has validated them.
connect_outcomes_commit_first(c, self, conn) ==
    IF connected(c, self, conn) \/ conn = self
        THEN { [connections |-> c, error |-> NoError] }
    ELSE IF pair_check(self, conn) # NoError
        THEN { [connections |-> c, error |-> pair_check(self, conn)] }
    ELSE IF union_check_errors(c, self, conn) \ {NoError} # {}
        THEN { [connections |->
                    [c EXCEPT ![self] = @ \cup {conn}, ![conn] = @ \cup {self}],
                error |-> e] :
               e \in union_check_errors(c, self, conn) \ {NoError} }
    ELSE { [connections |-> connect_commit(c, self, conn), error |-> NoError] }

\* The outcomes of self.connect(conn) from connection sets c: the new
\* connection sets, the exception raised, and whether the assignments ran.
\* A connect without the return for ports that are connected already.
connect_outcomes_always_checked(c, self, conn) ==
    IF pair_check(self, conn) # NoError
        THEN { [connections |-> c, error |-> pair_check(self, conn)] }
    ELSE IF union_check_errors(c, self, conn) \ {NoError} # {}
        THEN { [connections |-> c, error |-> e] :
               e \in union_check_errors(c, self, conn) \ {NoError} }
    ELSE { [connections |-> connect_commit(c, self, conn), error |-> NoError] }

connect_outcomes(c, self, conn) ==
    IF connected(c, self, conn) \/ conn = self
        THEN { [connections |-> c, error |-> NoError] }
    ELSE IF pair_check(self, conn) # NoError
        THEN { [connections |-> c, error |-> pair_check(self, conn)] }
    ELSE IF union_check_errors(c, self, conn) \ {NoError} # {}
        THEN { [connections |-> c, error |-> e] :
               e \in union_check_errors(c, self, conn) \ {NoError} }
    ELSE { [connections |-> connect_commit(c, self, conn), error |-> NoError] }

----------------------------------------------------------------------------
(* The arrow syntax: self > other and self < other.  Python calls the       *)
(* method of the left operand; Input overrides __gt__ and Output overrides *)
(* __lt__, the others are Connectable's, which call self.connect(other).   *)

ArrowError(self) == [class |-> "ConnectionError", labels |-> <<self>>]

\* An Input without its own __gt__: Connectable.__gt__ is called.
gt_outcomes_inherited(c, self, other) == connect_outcomes(c, self, other)

\* self > other
gt_outcomes(c, self, other) ==
    IF Kind(self) = "Input"
        THEN { [connections |-> c, error |-> ArrowError(self)] }
        ELSE connect_outcomes(c, self, other)

\* self < other
lt_outcomes(c, self, other) ==
    IF Kind(self) = "Output"
        THEN { [connections |-> c, error |-> ArrowError(self)] }
        ELSE connect_outcomes(c, self, other)

----------------------------------------------------------------------------
(* IO.disconnect                                                           *)

\* A disconnect that leaves out the loop over self.connections.
disconnect_outcomes_self_only(c, self) ==
    { [connections |-> [c EXCEPT ![self] = {}], error |-> NoError] }

\* connection.connections.remove(self) raises KeyError when self is absent;
\* the loop has then removed self from the connections met before.
disconnect_outcomes(c, self) ==
    IF disconnected(c, self)
        THEN { [connections |-> c, error |-> NoError] }
    ELSE IF \A q \in c[self] : self \in c[q]
        THEN { [connections |->
                    [q \in DOMAIN c |-> IF q = self THEN {}
                                     ELSE IF q \in c[self] THEN c[q] \ {self}
                                     ELSE c[q]],
                error |-> NoError] }
    ELSE { [connections |->
                [q \in DOMAIN c |->
                    IF q \in done THEN c[q] \ {self} ELSE c[q]],
            error |-> [class |-> "KeyError", labels |-> <<self>>]] :
           done \in SUBSET {q \in c[self] : self \in c[q]} }

----------------------------------------------------------------------------
(* The objects of the data layer.  A memory st is a record of the fields   *)
(* buffer, bufstate, array, refs, refset and contents, with the flag ok    *)
(* that is FALSE when an object was needed and none was left.              *)

Min(S) == CHOOSE x \in S : \A y \in S : x <= y

\* The function f itself; comparing it makes TLC tabulate it once instead
\* of evaluating its body at every application.
Tabulated(f) == IF f = f THEN f ELSE f

\* The SampleBuffers that can still be reached: those of the ports, those in
\* roots, and the members of the refs sets of reachable SampleBuffers.
RECURSIVE Reach(_, _)
Reach(st, R) ==
    LET R2 == R \cup UNION { st.refset[st.refs[h]] :
                                 h \in {x \in R : st.refs[x] # NoSet} }
    IN  IF R2 = R THEN R ELSE Reach(st, R2)

Live(st, roots) == Reach(st, {st.buffer[p] : p \in Ports} \cup roots)

LiveArrays(st, roots, held) ==
    ({st.array[h] : h \in Live(st, roots)} \ {None}) \cup held

\* A SampleBuffer object, set object or array object that is not in use.
NewHandle(st, roots) ==
    IF Handles \ Live(st, roots) = {} THEN 0
    ELSE Min(Handles \ Live(st, roots))

NewSet(st, h) == Min({s \in SetIds : \A x \in Handles \ {h} : st.refs[x] # s})

NewArray(st, roots, held) ==
    IF ArrayIds \ LiveArrays(st, roots, held) = {} THEN 0
    ELSE Min(ArrayIds \ LiveArrays(st, roots, held))

\* Objects that cannot be reached any more are collected, and the objects
\* that remain are renumbered: the SampleBuffer of the n-th port becomes n,
\* the other SampleBuffers follow in the order of the first port whose refs
\* set holds them, a set object takes the number of its first holder and the
\* arrays follow the order of their first holder.  An object's number stands
\* for its identity only, so the renumbering changes nothing the program
\* can observe.
HandleNumbering(st) ==
    LET live   == Live(st, {})
        ports  == {st.buffer[p] : p \in Ports}
        others == live \ ports
        key    == Tabulated([x \in others |->
                      LET owners == {p \in Ports :
                                        x \in st.refset[st.refs[st.buffer[p]]]}
                      IN  IF owners = {}
                            THEN (Cardinality(Ports) + 1) * (MaxHandles + 1) + x
                            ELSE Min({PortIndex(p) : p \in owners})
                                     * (MaxHandles + 1) + x])
    IN  Tabulated([h \in live |->
            IF h \in ports
                THEN PortIndex(CHOOSE p \in Ports : st.buffer[p] = h)
                ELSE Cardinality(Ports)
                     + Cardinality({x \in others : key[x] <= key[h]})])

ArrayNumbering(st, held) ==
    LET live == Live(st, {})
        hnew == HandleNumbering(st)
        arrs == LiveArrays(st, {}, held)
        key  == Tabulated([a \in arrs |->
                    LET holders == {h \in live : st.array[h] = a}
                    IN  IF holders = {}
                          THEN (MaxHandles + 1) * (MaxArrays + 1) + a
                          ELSE Min({hnew[h] : h \in holders}) * (MaxArrays + 1)])
    IN  Tabulated([a \in arrs \cup {None} |->
            IF a = None THEN None
            ELSE Cardinality({x \in arrs : key[x] <= key[a]})])

Collect(st, held) ==
    LET live == Live(st, {})
        hnew == HandleNumbering(st)
        anew == ArrayNumbering(st, held)
        arrs == LiveArrays(st, {}, held)
        hold == Tabulated([k \in {hnew[h] : h \in live} |->
                    CHOOSE h \in live : hnew[h] = k])
        snew == Tabulated([k \in DOMAIN hold |->
                    Min({hnew[h] : h \in {y \in live :
                                             st.refs[y] = st.refs[hold[k]]}})])
        aold == Tabulated([k \in 1..Cardinality(arrs) |->
                    CHOOSE a \in arrs : anew[a] = k])
    IN  [st EXCEPT
            !.buffer = [p \in Ports |-> hnew[st.buffer[p]]],
            !.array = [k \in Handles |->
                IF k \in DOMAIN hold THEN anew[st.array[hold[k]]] ELSE None],
            !.refs = [k \in Handles |->
                IF k \in DOMAIN hold THEN snew[k] ELSE NoSet],
            !.refset = [k \in SetIds |->
                IF k \in DOMAIN hold /\ snew[k] = k
                    THEN {hnew[h] : h \in st.refset[st.refs[hold[k]]]}
                    ELSE {}],
            !.contents = [k \in ArrayIds |->
                IF k \in DOMAIN aold THEN st.contents[aold[k]]
                ELSE Unallocated]]

----------------------------------------------------------------------------
(* SampleBuffer                                                            *)

\* A SampleBuffer.__init__ that takes the array of other and starts a refs
\* set of its own.
SampleBuffer_own_refs(st, self, other) ==
    LET s == NewSet(st, self) IN
    [st EXCEPT !.array[self] = IF other = None THEN None
                               ELSE st.array[other],
               !.refs[self] = s,
               !.refset[s] = {self}]

\* SampleBuffer.__init__(self, other) for the new object self
SampleBuffer(st, self, other) ==
    IF other = None
        THEN LET s == NewSet(st, self) IN
             [st EXCEPT !.array[self] = None,
                        !.refs[self] = s,
                        !.refset[s] = {self}]
        ELSE LET s == st.refs[other] IN
             [st EXCEPT !.array[self] = st.array[other],
                        !.refs[self] = s,
                        !.refset[s] = @ \cup {self}]

\* SampleBuffer.same_ref
same_ref(st, self, other) == st.array[self] = st.array[other]

\* SampleBuffer.__eq__: numpy.array_equal of the two arrays; numpy turns
\* None into the array that numpy.copy(None) makes before it compares.
array_value(st, a) == IF a = None THEN NoneObject ELSE st.contents[a]
buffer_eq(st, self, other) ==
    array_value(st, st.array[self]) = array_value(st, st.array[other])

\* SampleBuffer.from_array for the new object self
from_array(st, self, a) ==
    [SampleBuffer(st, self, None) EXCEPT !.array[self] = a]

\* A destroy that leaves self in the refs set it had.
destroy_without_remove(st, self) ==
    LET st1 == [st EXCEPT !.array[self] = None]
        s   == NewSet(st1, self)
    IN  [st1 EXCEPT !.refs[self] = s, !.refset[s] = {self}]

\* SampleBuffer.destroy
destroy(st, self) ==
    LET st1 == [st EXCEPT !.array[self] = None,
                          !.refset[st.refs[self]] = @ \ {self}]
        s   == NewSet(st1, self)
    IN  [st1 EXCEPT !.refs[self] = s, !.refset[s] = {self}]

\* A prepare_to_modify that keeps the array instead of copying it.
prepare_to_modify_no_copy(st, self, held) ==
    IF Cardinality(st.refset[st.refs[self]]) > 1
        THEN [destroy(st, self) EXCEPT !.array[self] = st.array[self]]
        ELSE st

\* A prepare_to_modify that clones the array and stays in the refs set.
prepare_to_modify_keeps_refs(st, self, held) ==
    IF Cardinality(st.refset[st.refs[self]]) > 1
        THEN LET temp == NewArray(st, {}, held)
                 data == IF st.array[self] = None THEN NoneObject
                         ELSE st.contents[st.array[self]]
             IN  IF temp = 0 THEN [st EXCEPT !.ok = FALSE]
                 ELSE [st EXCEPT !.contents[temp] = data, !.array[self] = temp]
        ELSE st

\* SampleBuffer.prepare_to_modify; held are the arrays the caller holds
prepare_to_modify(st, self, held) ==
    IF Cardinality(st.refset[st.refs[self]]) > 1
        THEN LET temp == NewArray(st, {}, held)
                 data == IF st.array[self] = None THEN NoneObject
                         ELSE st.contents[st.array[self]]
             IN  IF temp = 0 THEN [st EXCEPT !.ok = FALSE]
                 ELSE [destroy([st EXCEPT !.contents[temp] = data], self)
                          EXCEPT !.array[self] = temp]
        ELSE st

\* SampleBuffer.empty
sb_empty(st, self) ==
    st.array[self] = None /\ Cardinality(st.refset[st.refs[self]]) = 1

----------------------------------------------------------------------------
(* IO, Input, Output: the data operations                                  *)

\* A load without the overrides of Input and Output: IO.load alone.
load_not_overridden(st, self, buf) ==
    LET st1 == destroy(st, st.buffer[self])
        new == NewHandle(st1, {buf} \ {None})
    IN  IF new = 0 \/ ~st.ok THEN [st EXCEPT !.ok = FALSE]
        ELSE [SampleBuffer(st1, new, buf) EXCEPT
                 !.buffer[self] = new,
                 !.bufstate[self] = filled]

\* Input.load / Output.load: IO.load, then the bufstate of the subclass
load(st, self, buf) ==
    LET st1 == destroy(st, st.buffer[self])
        new == NewHandle(st1, {buf} \ {None})
    IN  IF new = 0 \/ ~st.ok THEN [st EXCEPT !.ok = FALSE]
        ELSE [SampleBuffer(st1, new, buf) EXCEPT
                 !.buffer[self] = new,
                 !.bufstate[self] = IF Kind(self) = "Input" THEN filled
                                    ELSE ready_to_push]

\* A clear that sets the state and keeps the buffer.
clear_flag_only(st, self) ==
    [st EXCEPT !.bufstate[self] = empty]

\* IO.clear
clear(st, self) ==
    [destroy(st, st.buffer[self]) EXCEPT !.bufstate[self] = empty]

\* IO.push: load self.buffer into every connection, one after the other
RECURSIVE push_loop(_, _, _)
push_loop(st, self, todo) ==
    IF todo = {} THEN st
    ELSE LET q == CHOOSE x \in todo :
                      \A y \in todo : PortIndex(x) <= PortIndex(y)
         IN  push_loop(load(st, q, st.buffer[self]), self, todo \ {q})

push(st, c, self) == push_loop(st, self, c[self])

\* A flush that leaves out the clear.
flush_push_only(st, c, self) == push(st, c, self)

\* IO.flush
flush(st, c, self) == clear(push(st, c, self), self)

\* A read that returns the array the buffer held before prepare_to_modify.
read_result_unprepared(st, self, held) == st.array[st.buffer[self]]

\* IO.read: the memory afterwards; the array returned is read_result
read_result(st, self, held) ==
    prepare_to_modify(st, st.buffer[self], held).array[st.buffer[self]]

read(st, self, held) ==
    clear(prepare_to_modify(st, st.buffer[self], held), self)

\* An Input.tick that clears the port.
tick_input_clears(st, c, self) ==
    IF Kind(self) = "Input"
        THEN clear(st, self)
        ELSE flush(st, c, self)

\* An Output.tick that pushes and keeps the data.
tick_keeps_output(st, c, self) ==
    IF Kind(self) = "Input"
        THEN [st EXCEPT !.bufstate[self] = empty]
        ELSE push(st, c, self)

\* Input.tick / Output.tick
tick(st, c, self) ==
    IF Kind(self) = "Input"
        THEN [st EXCEPT !.bufstate[self] = empty]
        ELSE flush(st, c, self)

----------------------------------------------------------------------------
(* Devices.  Device k owns Input k; if there is an Output k it is a        *)
(* SingleChannelEffect that owns Output k as well, otherwise it is a       *)
(* MonoInputDevice.  A DeviceCollection owns no port and is named after    *)
(* the device that created it.                                             *)

Devices == 1..NumInputs
Effects == {k \in Devices : k <= NumOutputs}

input(k) == <<"Input", k>>
output(k) == <<"Output", k>>

\* self.ios.values(): MonoOutputDevice.__init__ runs to its end before
\* MonoInputDevice.__init__ adds the Input.
ios(k) == IF k \in Effects THEN <<output(k), input(k)>> ELSE <<input(k)>>

\* The loops of Device.tick: the ports whose bufstate is state when their
\* turn comes are ticked.
RECURSIVE tick_each(_, _, _, _, _)
tick_each(st, c, ports, i, state) ==
    IF i > Len(ports) THEN st
    ELSE tick_each(IF st.bufstate[ports[i]] = state
                       THEN tick(st, c, ports[i]) ELSE st,
                   c, ports, i + 1, state)

\* The array SingleChannelEffect.process hands to transform, None if there
\* is none.
process_data(st, k) ==
    IF k \in Effects THEN read_result(st, input(k), {}) ELSE None

\* SingleChannelEffect.process with the transform that returns its
\* argument; Device.process of a device without subdevices
process(st, k) ==
    IF k \notin Effects THEN st
    ELSE LET data == process_data(st, k)
             st1  == read(st, input(k), {})
             e    == NewHandle(st1, {})
         IN  IF data = None THEN st1
             ELSE IF e = 0 \/ ~st1.ok THEN [st1 EXCEPT !.ok = FALSE]
             ELSE load(from_array(st1, e, data), output(k), e)

\* A Device.tick that flushes before it processes.
device_tick_flush_first(st, c, k) ==
    process(tick_each(tick_each(st, c, ios(k), 1, filled),
                      c, ios(k), 1, ready_to_push), k)

\* Device.tick of device k
device_tick(st, c, k) ==
    tick_each(process(tick_each(st, c, ios(k), 1, filled), k),
              c, ios(k), 1, ready_to_push)

\* What transform is given when device k ticks: the value of the array,
\* None if transform is not called.
transform_value(st, c, k) ==
    LET st1  == tick_each(st, c, ios(k), 1, filled)
        data == process_data(st1, k)
    IN  IF data = None THEN None
        ELSE array_value(prepare_to_modify(st1, st1.buffer[input(k)], {}),
                         data)

\* A Device.process that ticks the subdevices last to first.
RECURSIVE subdevices_tick_reversed(_, _, _, _, _)
subdevices_tick_reversed(st, c, subs, i, log) ==
    IF i > Len(subs) THEN [mem |-> st, log |-> log]
    ELSE LET k == subs[Len(subs) + 1 - i] IN
         subdevices_tick_reversed(device_tick(st, c, k), c, subs, i + 1,
             Append(log, [device |-> k,
                          data |-> transform_value(st, c, k)]))

\* Device.process of a DeviceCollection: the subdevices tick in the order
\* in which they were added.  The result holds the memory afterwards and
\* the devices ticked, in order, each with what its transform was given.
RECURSIVE subdevices_tick(_, _, _, _, _)
subdevices_tick(st, c, subs, i, log) ==
    IF i > Len(subs) THEN [mem |-> st, log |-> log]
    ELSE subdevices_tick(device_tick(st, c, subs[i]), c, subs, i + 1,
             Append(log, [device |-> subs[i],
                          data |-> transform_value(st, c, subs[i])]))

\* A contain that leaves out the registration of other.
contain_self_only(dv, self, other) ==
    IF dv.container[self] = None
        THEN LET cid == IF dv.container[other] = None THEN self
                        ELSE dv.container[other]
             IN  [container |-> [dv.container EXCEPT ![self] = cid],
                  subdevices |-> [dv.subdevices EXCEPT
                                     ![cid] = Append(@, self)]]
        ELSE dv

\* ContainableDevice.contain; dv holds the container of every device and
\* the subdevices of every DeviceCollection.
contain(dv, self, other) ==
    LET dv1 == IF dv.container[self] = None
                 THEN LET cid == IF dv.container[other] = None THEN self
                                 ELSE dv.container[other]
                      IN  [container |->
                               [dv.container EXCEPT ![self] = cid],
                           subdevices |->
                               [dv.subdevices EXCEPT
                                   ![cid] = Append(@, self)]]
                 ELSE dv
    IN  IF dv1.container[other] = None
          THEN [container |->
                    [dv1.container EXCEPT ![other] = dv1.container[self]],
                subdevices |->
                    [dv1.subdevices EXCEPT
                        ![dv1.container[self]] = Append(@, other)]]
          ELSE dv1

----------------------------------------------------------------------------
(* The dicts of a Device.  A str is a sequence of characters; a dict is    *)
(* the sequence of its items, in insertion order.                          *)

Labels == {<<"x">>, <<"x", "2">>, <<"y">>}

\* What a call passes when it leaves the label out.
NoLabel == <<"None">>

\* str(n) of the f-string in unique_key
RECURSIVE str(_)
str(n) ==
    LET digit == <<"0", "1", "2", "3", "4", "5", "6", "7", "8", "9">>
    IN  IF n < 10 THEN <<digit[n + 1]>>
        ELSE str(n \div 10) \o <<digit[(n % 10) + 1]>>

\* The keys of a dict
dict_keys(d) == {d[i].key : i \in 1..Len(d)}

\* d[key] = value
dict_set(d, key, value) ==
    IF key \in dict_keys(d)
        THEN [i \in 1..Len(d) |->
                 IF d[i].key = key THEN [key |-> key, value |-> value]
                 ELSE d[i]]
        ELSE Append(d, [key |-> key, value |-> value])

\* A unique_key that gives the key back as it is.
unique_key_unchecked(old_key, collection) == old_key

\* The loop of unique_key
RECURSIVE unique_key_loop(_, _, _, _)
unique_key_loop(old_key, collection, new_key, counter) ==
    IF new_key \in dict_keys(collection)
        THEN unique_key_loop(old_key, collection,
                             old_key \o str(counter), counter + 1)
        ELSE new_key

\* util.unique_key
unique_key(old_key, collection) ==
    unique_key_loop(old_key, collection, old_key, 2)

\* Device.add_io for the Device d, the IO object io with the label own
add_io(d, io, own, label) ==
    LET l == IF label = NoLabel THEN own ELSE label
    IN  [d EXCEPT !.ios = dict_set(@, unique_key(l, d.ios), io)]

\* Device.add_subdevice for the Device d, the Device subdevice with the
\* label own
add_subdevice(d, subdevice, own, label) ==
    LET l == IF label = NoLabel THEN own ELSE label
    IN  [d EXCEPT !.subdevices =
                      dict_set(@, unique_key(l, d.subdevices), subdevice)]

----------------------------------------------------------------------------
(* Patches.  A Python value is a record of its type and what it holds; a   *)
(* str holds a name or a sequence of characters, a dict the sequence of    *)
(* its items with their keys, a tuple or list its elements.                *)

Str(s) == [type |-> "str", val |-> s]
Integer(n) == [type |-> "int", val |-> n]
Tuple(t) == [type |-> "tuple", val |-> t]
List(t) == [type |-> "list", val |-> t]
Dict(d) == [type |-> "dict", val |-> d]

\* a == b
py_eq(a, b) == a.type = b.type /\ a.val = b.val

\* x in t for a tuple t, key in d for a dict d, and d[key]
in_tuple(x, t) == \E i \in 1..Len(t.val) : py_eq(x, t.val[i])
in_dict(key, d) == \E i \in 1..Len(d.val) : py_eq(key, d.val[i].key)
dict_get(d, key) ==
    d.val[CHOOSE i \in 1..Len(d.val) : py_eq(key, d.val[i].key)].value

InvalidPatchError == [class |-> "InvalidPatchError", labels |-> <<>>]
IncompatibleVersionError ==
    [class |-> "IncompatibleVersionError", labels |-> <<>>]
ValueError == [class |-> "ValueError", labels |-> <<>>]
KeyError == [class |-> "KeyError", labels |-> <<>>]
TypeError == [class |-> "TypeError", labels |-> <<>>]
AttributeError == [class |-> "AttributeError", labels |-> <<>>]
RecursionError == [class |-> "RecursionError", labels |-> <<>>]

\* A class object, as opposed to the name of a class.
Class(name) == [type |-> "type", val |-> name]

\* The props that parse_patch hands to validate_patch
props ==
    Tuple(<<Tuple(<<Str("version"), "str">>),
            Tuple(<<Str("schema"), "str">>),
            Tuple(<<Str("name"), "str">>),
            Tuple(<<Str("tree"), "dict">>)>>)

\* The first loop of validate_patch, from the i-th of the props on
RECURSIVE validate_props(_, _, _)
validate_props(patch, ps, i) ==
    IF i > Len(ps.val) THEN NoError
    ELSE LET prop     == ps.val[i].val[1]
             datatype == ps.val[i].val[2]
         IN  IF ~in_dict(prop, patch) THEN InvalidPatchError
             ELSE IF prop.type # datatype THEN InvalidPatchError
             ELSE validate_props(patch, ps, i + 1)

\* The second loop of validate_patch
validate_keys(patch, ps) ==
    IF \E i \in 1..Len(patch.val) : ~in_tuple(patch.val[i].key, ps)
        THEN InvalidPatchError
        ELSE NoError

\* patch.validate_patch: the error it raises, NoError if it returns
validate_patch(patch, ps) ==
    IF validate_props(patch, ps, 1) # NoError
        THEN validate_props(patch, ps, 1)
        ELSE validate_keys(patch, ps)

\* s.split('.') for the characters s: the parts, from left to right
RECURSIVE split(_, _)
split(s, sep) ==
    IF \A i \in 1..Len(s) : s[i] # sep THEN <<s>>
    ELSE LET i == Min({j \in 1..Len(s) : s[j] = sep})
         IN  <<SubSeq(s, 1, i - 1)>> \o split(SubSeq(s, i + 1, Len(s)), sep)

\* int(s) for the str s: whether it raises ValueError, and the number it
\* returns.  int takes whitespace around the number, a sign before it and
\* single underscores between its digits.  The characters are ASCII.
DigitValue(ch) ==
    CHOOSE d \in 0..9 :
        <<"0", "1", "2", "3", "4", "5", "6", "7", "8", "9">>[d + 1] = ch
IsDigit(ch) == ch \in {"0", "1", "2", "3", "4", "5", "6", "7", "8", "9"}
\* The vertical tab, which a TLA+ string has no escape for, is written as
\* the character itself.
IsSpace(ch) == ch \in {" ", "\t", "\n", "\r", "\f", ""}

\* s.strip()
RECURSIVE strip(_)
strip(s) ==
    IF Len(s) > 0 /\ IsSpace(s[1]) THEN strip(Tail(s))
    ELSE IF Len(s) > 0 /\ IsSpace(s[Len(s)])
        THEN strip(SubSeq(s, 1, Len(s) - 1))
    ELSE s

\* The digits of a stripped str, after its sign
unsigned(s) ==
    IF Len(s) > 0 /\ s[1] \in {"+", "-"} THEN Tail(s) ELSE s

\* The number that a str of digits and underscores stands for
RECURSIVE digits_value(_)
digits_value(s) ==
    IF Len(s) = 0 THEN 0
    ELSE IF s[Len(s)] = "_" THEN digits_value(SubSeq(s, 1, Len(s) - 1))
    ELSE 10 * digits_value(SubSeq(s, 1, Len(s) - 1)) + DigitValue(s[Len(s)])

int_raises(s) ==
    LET d == unsigned(strip(s)) IN
    \/ Len(d) = 0
    \/ ~IsDigit(d[1])
    \/ ~IsDigit(d[Len(d)])
    \/ \E i \in 1..Len(d) : ~IsDigit(d[i]) /\ d[i] # "_"
    \/ \E i \in 1..(Len(d) - 1) : d[i] = "_" /\ d[i + 1] = "_"

int(s) ==
    LET t == strip(s) IN
    IF Len(t) > 0 /\ t[1] = "-" THEN 0 - digits_value(unsigned(t))
    ELSE digits_value(unsigned(t))

\* A validate_version that also rejects the running major version.
validate_version_rejects_equal(patch, current) ==
    LET patch_version_parts   == split(dict_get(patch, Str("version")).val, ".")
        current_version_parts == split(current, ".")
    IN  IF ~in_dict(Str("version"), patch)
            THEN [error |-> KeyError]
        ELSE IF dict_get(patch, Str("version")).type # "str"
            THEN [error |-> AttributeError]
        ELSE IF Len(patch_version_parts) # 3
            THEN [error |-> IncompatibleVersionError]
        ELSE IF int_raises(patch_version_parts[1])
                    \/ int_raises(current_version_parts[1])
            THEN [error |-> ValueError]
        ELSE IF int(patch_version_parts[1]) >= int(current_version_parts[1])
            THEN [error |-> IncompatibleVersionError]
        ELSE [error |-> NoError, result |-> patch_version_parts]

\* patch.validate_version; current is plappy.__version__
validate_version(patch, current) ==
    LET patch_version_parts   == split(dict_get(patch, Str("version")).val, ".")
        current_version_parts == split(current, ".")
    IN  IF ~in_dict(Str("version"), patch)
            THEN [error |-> KeyError]
        ELSE IF dict_get(patch, Str("version")).type # "str"
            THEN [error |-> AttributeError]
        ELSE IF Len(patch_version_parts) # 3
            THEN [error |-> IncompatibleVersionError]
        ELSE IF int_raises(patch_version_parts[1])
                    \/ int_raises(current_version_parts[1])
            THEN [error |-> ValueError]
        ELSE IF int(patch_version_parts[1]) > int(current_version_parts[1])
            THEN [error |-> IncompatibleVersionError]
        ELSE [error |-> NoError, result |-> patch_version_parts]

\* cls(label=label) for the class object cls: the Device or IO it makes.
\* A port is a record of its class, label and connections, a Device one of
\* its class, label, ios and subdevices, a MultiIO one of its class, label,
\* connections and its set of ios.  MonoOutputDevice.__init__ runs before
\* the rest of MonoInputDevice.__init__, so the Output of a single channel
\* device comes first in its ios.  The classes are those of plappy/io.py,
\* plappy/devices.py and plappy/effects.py.
construct(cls, label) ==
    LET port(kind, suffix) ==
            [key |-> label \o suffix,
             value |-> [class |-> kind, label |-> label \o suffix,
                        connections |-> {}]]
    IN  CASE cls.val \in {"IO", "Input", "Output"} ->
                 [class |-> cls.val, label |-> label, connections |-> {}]
          [] cls.val = "MultiIO" ->
                 [class |-> cls.val, label |-> label, connections |-> {},
                  ios |-> {}]
          [] cls.val \in {"SingleChannelDevice", "SingleChannelEffect",
                          "LinearGain", "Inverter", "Gain",
                          "ClipDistortion"} ->
                 [class |-> cls.val, label |-> label,
                  ios |-> <<port("Output", <<"-output">>),
                            port("Input", <<"-input">>)>>,
                  subdevices |-> <<>>]
          [] cls.val = "MonoInputDevice" ->
                 [class |-> cls.val, label |-> label,
                  ios |-> <<port("Input", <<"-input">>)>>,
                  subdevices |-> <<>>]
          [] cls.val = "MonoOutputDevice" ->
                 [class |-> cls.val, label |-> label,
                  ios |-> <<port("Output", <<"-output">>)>>,
                  subdevices |-> <<>>]
          [] cls.val \in {"Device", "DeviceCollection", "ContainableDevice",
                          "Effect", "MultiChannelEffect"} ->
                 [class |-> cls.val, label |-> label, ios |-> <<>>,
                  subdevices |-> <<>>]

\* The first of the keys that the dict spec does not have, "" if it has all.
missing_key(spec, keys) ==
    IF \A i \in 1..Len(keys) : in_dict(Str(keys[i]), spec) THEN ""
    ELSE keys[Min({i \in 1..Len(keys) : ~in_dict(Str(keys[i]), spec)})]

\* The loop of make_device over the port descriptors, from the i-th on; r
\* holds the device, connections_to_make and the error raised, if any.
\* An IO made as the device has no add_io (AttributeError) and the add_io
\* of a MultiIO takes no label (TypeError).
RECURSIVE make_ios(_, _, _)
make_ios(r, io_specs, i) ==
    IF i > Len(io_specs) \/ r.error # NoError THEN r
    ELSE LET io_spec == io_specs[i] IN
         IF missing_key(io_spec, <<"class", "label", "connections">>) # ""
             THEN [r EXCEPT !.error = KeyError]
         ELSE LET io_cls         == dict_get(io_spec, Str("class"))
                  io_label       == dict_get(io_spec, Str("label")).val
                  io_connections == dict_get(io_spec, Str("connections")).val
              IN  IF io_cls.type # "type"
                      THEN [r EXCEPT !.error = TypeError]
                  ELSE IF r.device.class \in {"IO", "Input", "Output"}
                      THEN [r EXCEPT !.error = AttributeError]
                  ELSE IF r.device.class = "MultiIO"
                      THEN [r EXCEPT !.error = TypeError]
                  ELSE make_ios(
                      [r EXCEPT
                          !.device = add_io(@, construct(io_cls, io_label),
                                            io_label, io_label),
                          !.connections_to_make = @ \cup
                              {{io_label, io_connections[j].val} :
                                   j \in 1..Len(io_connections)}],
                      io_specs, i + 1)

\* patch.make_device with its loop over the subdevices.  device <= subdevice
\* is a TypeError when the device made is an IO or a MultiIO, which have no
\* __le__.
RECURSIVE make_device(_)
RECURSIVE make_subdevices(_, _, _)
make_subdevices(r, sub_specs, i) ==
    IF i > Len(sub_specs) \/ r.error # NoError THEN r
    ELSE LET sub == make_device(sub_specs[i]) IN
         IF sub.error # NoError THEN [r EXCEPT !.error = sub.error]
         ELSE IF r.device.class \in {"IO", "Input", "Output", "MultiIO"}
             THEN [r EXCEPT !.error = TypeError]
         ELSE make_subdevices(
                  [r EXCEPT !.device = add_subdevice(@, sub.device,
                                                     sub.device.label, NoLabel)],
                  sub_specs, i + 1)

make_device(spec) ==
    LET failed(e) == [error |-> e, device |-> <<>>,
                      connections_to_make |-> {}]
    IN  IF missing_key(spec, <<"class", "label", "subdevices", "ios">>) # ""
            THEN failed(KeyError)
        ELSE LET cls   == dict_get(spec, Str("class"))
                 label == dict_get(spec, Str("label")).val
                 subs  == dict_get(spec, Str("subdevices")).val
                 iosp  == dict_get(spec, Str("ios")).val
             IN  IF cls.type # "type" THEN failed(TypeError)
                 ELSE make_ios(
                          make_subdevices(
                              [error |-> NoError,
                               device |-> construct(cls, label),
                               connections_to_make |-> {}],
                              subs, 1),
                          iosp, 1)

\* patch.make_connections
make_connections(device, cs) == device

\* patch.parse_patch; current is plappy.__version__
parse_patch(patch, current) ==
    LET failed(e) == [error |-> e, device |-> <<>>] IN
    IF validate_patch(patch, props) # NoError
        THEN failed(validate_patch(patch, props))
    ELSE IF validate_version(patch, current).error # NoError
        THEN failed(validate_version(patch, current).error)
    ELSE LET made == make_device(patch) IN
         IF made.error # NoError THEN failed(made.error)
         ELSE [error |-> NoError,
               device |-> make_connections(made.device,
                                           made.connections_to_make)]

----------------------------------------------------------------------------
(* The state machine of the connection graph                               *)

NoCall == [op |-> "none", error |-> NoError]

datavars == <<bufstate, buffer, array, refs, refset, contents>>
scenariovars == <<stage, triple, disconnects>>
devicevars == <<container, subdevices, dev>>
vars == <<connections, bufstate, buffer, array, refs, refset, contents, call,
          stage, triple, disconnects, container, subdevices, dev>>

\* IO.__init__ for every port: no connections, a new SampleBuffer(), empty.
Init ==
    /\ connections = [p \in Ports |-> {}]
    /\ bufstate = [p \in Ports |-> empty]
    /\ buffer = [p \in Ports |-> PortIndex(p)]
    /\ array = [h \in Handles |-> None]
    /\ refs = [h \in Handles |->
                   IF h <= Cardinality(Ports) THEN h ELSE NoSet]
    /\ refset = [s \in SetIds |->
                   IF s <= Cardinality(Ports) THEN {s} ELSE {}]
    /\ contents = [a \in ArrayIds |-> Unallocated]
    /\ call = NoCall
    /\ stage = 0
    /\ triple = <<>>
    /\ disconnects = 0
    /\ container = [k \in Devices |-> None]
    /\ subdevices = [k \in Devices |-> <<>>]
    /\ dev = [ios |-> <<>>, subdevices |-> <<>>]

\* MultiIO.connect: io.connect(other) for each io of self.ios, a set, so
\* in any order; the first exception ends the loop.  MultiIO has no
\* connector and an IO has no onconnect, so Connectable.connect adds
\* nothing.
RECURSIVE multi_connect(_, _, _)
multi_connect(c, members, other) ==
    IF members = {} THEN { [connections |-> c, error |-> NoError] }
    ELSE UNION { UNION { IF r.error # NoError THEN {r}
                         ELSE multi_connect(r.connections, members \ {io},
                                            other)
                         : r \in connect_outcomes(c, io, other) }
                 : io \in members }

\* MultiIO.onconnect(other) for the MultiIO with the ios members:
\* io.connect(other) for each io, in any order, then super().onconnect,
\* which Connectable does not have: AttributeError, unless a connect of
\* the loop has raised before.
onconnect(c, members, other) ==
    { IF r.error # NoError THEN r ELSE [r EXCEPT !.error = AttributeError] :
          r \in multi_connect(c, members, other) }

\* The sets of ports a MultiIO is made with
MultiIOs ==
    {members \in SUBSET Ports : Cardinality(members) \in 1..MaxMembers}

\* MultiIO(label, members).connect(other)
MultiConnect(members, other) ==
    \E r \in multi_connect(connections, members, other) :
        /\ connections' = r.connections
        /\ call' = [op |-> "multi_connect", error |-> r.error]
        /\ UNCHANGED <<datavars, devicevars>>

\* self.connect(MultiIO(label, members)) for the port self.  The MultiIO
\* is new and has no connections.  IO.connect runs its checks and its
\* assignments with the MultiIO as conn, which puts the MultiIO into the
\* connections of self and of its peers; Connectable.connect then calls
\* the onconnect of the MultiIO.
ConnectMulti(self, members) ==
    LET c0 == [q \in Ports \cup {Multi} |->
                  IF q = Multi THEN {} ELSE connections[q]]
    IN  \E r \in connect_outcomes(c0, self, Multi) :
            \E r2 \in (IF r.error # NoError THEN {r}
                        ELSE onconnect(r.connections, members, self)) :
                /\ connections' = r2.connections
                /\ call' = [op |-> "connect_multi", error |-> r2.error]
                /\ UNCHANGED <<datavars, devicevars>>

Connect(self, conn) ==
    \E r \in connect_outcomes(connections, self, conn) :
        /\ connections' = r.connections
        /\ call' = [op |-> "connect", error |-> r.error]
        /\ UNCHANGED <<datavars, devicevars>>

Disconnect(self) ==
    \E r \in disconnect_outcomes(connections, self) :
        /\ connections' = r.connections
        /\ call' = [op |-> "disconnect", error |-> r.error]
        /\ UNCHANGED <<datavars, devicevars>>

ArrowGt(self, other) ==
    \E r \in gt_outcomes(connections, self, other) :
        /\ connections' = r.connections
        /\ call' = [op |-> "gt", error |-> r.error]
        /\ UNCHANGED <<datavars, devicevars>>

ArrowLt(self, other) ==
    \E r \in lt_outcomes(connections, self, other) :
        /\ connections' = r.connections
        /\ call' = [op |-> "lt", error |-> r.error]
        /\ UNCHANGED <<datavars, devicevars>>

\* The memory of the current state, and the assignment of a memory to the
\* next state once the objects that are out of reach have been collected.
Mem ==
    [buffer |-> buffer, bufstate |-> bufstate, array |-> array, refs |-> refs,
     refset |-> refset, contents |-> contents, ok |-> TRUE]

Store(st, held) ==
    /\ st.ok
    /\ LET new == Collect(st, held) IN
        /\ buffer' = new.buffer
        /\ bufstate' = new.bufstate
        /\ array' = new.array
        /\ refs' = new.refs
        /\ refset' = new.refset
        /\ contents' = new.contents

\* self.load(SampleBuffer.from_array(a)) for a new array a holding v; the
\* caller keeps neither the array nor the SampleBuffer.
LoadFromArray(self, v) ==
    LET a  == NewArray(Mem, {}, {})
        e  == NewHandle(Mem, {})
    IN  /\ a # 0
        /\ e # 0
        /\ Store(load(from_array([Mem EXCEPT !.contents[a] = v], e, a),
                      self, e), {})
        /\ call' = [op |-> "load", error |-> NoError]
        /\ UNCHANGED <<connections, devicevars>>

\* self.load(other.buffer) for the ports self and other
LoadBuffer(self, other) ==
    /\ Store(load(Mem, self, buffer[other]), {})
    /\ call' = [op |-> "load", error |-> NoError]
    /\ UNCHANGED <<connections, devicevars>>

\* self.load(None): what MonoSource.process does with its output, whose
\* generate returns None.
LoadNone(self) ==
    /\ Store(load(Mem, self, None), {})
    /\ call' = [op |-> "load", error |-> NoError]
    /\ UNCHANGED <<connections, devicevars>>

\* self.tick()
Tick(self) ==
    /\ Store(tick(Mem, connections, self), {})
    /\ call' = [op |-> "tick", error |-> NoError]
    /\ UNCHANGED <<connections, devicevars>>

\* self.flush()
Flush(self) ==
    /\ Store(flush(Mem, connections, self), {})
    /\ call' = [op |-> "flush", error |-> NoError]
    /\ UNCHANGED <<connections, devicevars>>

\* self.push()
Push(self) ==
    /\ Store(push(Mem, connections, self), {})
    /\ call' = [op |-> "push", error |-> NoError]
    /\ UNCHANGED <<connections, devicevars>>

\* self.buffer.destroy()
Destroy(self) ==
    /\ Store(destroy(Mem, buffer[self]), {})
    /\ call' = [op |-> "destroy", error |-> NoError]
    /\ UNCHANGED <<connections, devicevars>>

\* self.clear()
Clear(self) ==
    /\ Store(clear(Mem, self), {})
    /\ call' = [op |-> "clear", error |-> NoError]
    /\ UNCHANGED <<connections, devicevars>>

\* self.buffer.prepare_to_modify()
PrepareToModify(self) ==
    /\ Store(prepare_to_modify(Mem, buffer[self], {}), {})
    /\ call' = [op |-> "prepare_to_modify", error |-> NoError]
    /\ UNCHANGED <<connections, devicevars>>

\* received = self.read(), after which the caller writes into received;
\* value is what the array held when it was returned.
ReadAndMutate(self) ==
    LET res == read_result(Mem, self, {})
        st  == read(Mem, self, {})
        st2 == IF res = None THEN st
               ELSE [st EXCEPT !.contents[res] = Mutated]
    IN  /\ Store(st2, {res} \ {None})
        /\ call' = [op |-> "read", error |-> NoError,
                    result |-> ArrayNumbering(st2, {res} \ {None})[res],
                    value |-> array_value(st, res)]
        /\ UNCHANGED <<connections, devicevars>>

\* self >> other for the devices self and other.  A SingleChannelEffect
\* has MonoOutputDevice.__rshift__, which contains other, then points the
\* arrow from self.output to other.input.  A MonoInputDevice has no
\* __rshift__: Python turns to other.__rrshift__, which evaluates
\* other >> self the same way again and never ends when other is a
\* SingleChannelEffect, and which Python does not try when other is of the
\* class of self.
Chain(self, other) ==
    IF self \in Effects
        THEN LET dv == contain([container |-> container,
                                subdevices |-> subdevices], self, other)
             IN  /\ container' = dv.container
                 /\ subdevices' = dv.subdevices
                 /\ \E r \in gt_outcomes(connections, output(self),
                                         input(other)) :
                        /\ connections' = r.connections
                        /\ call' = [op |-> "rshift", error |-> r.error]
                 /\ UNCHANGED <<datavars, dev>>
        ELSE /\ call' = [op |-> "rshift",
                         error |-> IF other \in Effects THEN RecursionError
                                   ELSE TypeError]
             /\ UNCHANGED <<connections, datavars, devicevars>>

\* self << other for the devices self and other: MonoInputDevice.__lshift__
\* contains other, then points the arrow into self.input from
\* other.output, which a MonoInputDevice does not have.  When self is a
\* MonoInputDevice and other a SingleChannelEffect, a subclass of it,
\* Python calls other.__rlshift__ first, which evaluates self << other the
\* same way again and never ends.
LShift(self, other) ==
    IF self \notin Effects /\ other \in Effects
        THEN /\ call' = [op |-> "lshift", error |-> RecursionError]
             /\ UNCHANGED <<connections, datavars, devicevars>>
        ELSE LET dv == contain([container |-> container,
                                subdevices |-> subdevices], self, other)
             IN  /\ container' = dv.container
                 /\ subdevices' = dv.subdevices
                 /\ IF other \in Effects
                       THEN \E r \in lt_outcomes(connections, input(self),
                                                 output(other)) :
                                /\ connections' = r.connections
                                /\ call' = [op |-> "lshift",
                                            error |-> r.error]
                       ELSE /\ connections' = connections
                            /\ call' = [op |-> "lshift",
                                        error |-> AttributeError]
                 /\ UNCHANGED <<datavars, dev>>

\* self.contain(other) for the devices self and other
Contain(self, other) ==
    LET dv == contain([container |-> container, subdevices |-> subdevices],
                      self, other)
    IN  /\ container' = dv.container
        /\ subdevices' = dv.subdevices
        /\ call' = [op |-> "contain", error |-> NoError]
        /\ UNCHANGED <<connections, datavars, dev>>

\* k.container | other for the device other: DeviceCollection.__or__ goes
\* to Device.__le__ and that to add_subdevice, so k.container <= other and
\* k.container.add_subdevice(other) are the same step.  other is registered
\* in the collection, under a new key when its label is there already, and
\* its container is left as it is.
Consume(k, other) ==
    /\ container[k] # None
    /\ subdevices' = [subdevices EXCEPT ![container[k]] = Append(@, other)]
    /\ call' = [op |-> "or", error |-> NoError]
    /\ UNCHANGED <<connections, datavars, container, dev>>

\* k.container | other.container: other is a DeviceCollection, so
\* self <= other.subdevices, which iterates the keys of the dict.  A key is
\* a str, every character of a str is a str again, and Device.__le__ never
\* ends.  The collection of a device is never empty.
Merge(k, other) ==
    /\ container[k] # None
    /\ container[other] # None
    /\ call' = [op |-> "or", error |-> RecursionError]
    /\ UNCHANGED <<connections, datavars, devicevars>>

\* k.tick() for the device k
DeviceTick(k) ==
    /\ Store(device_tick(Mem, connections, k), {})
    /\ call' = [op |-> "device_tick", error |-> NoError,
                log |-> <<[device |-> k,
                           data |-> transform_value(Mem, connections, k)]>>]
    /\ UNCHANGED <<connections, devicevars>>

\* k.container.tick() for the device k
ContainerTick(k) ==
    LET r == subdevices_tick(Mem, connections, subdevices[container[k]], 1,
                             <<>>)
    IN  /\ container[k] # None
        /\ Store(r.mem, {})
        /\ call' = [op |-> "container_tick", error |-> NoError,
                    log |-> r.log]
        /\ UNCHANGED <<connections, devicevars>>

Next ==
    \/ \E self \in Ports, conn \in Ports :
           Connect(self, conn) /\ UNCHANGED scenariovars
    \/ /\ disconnects < MaxDisconnects
       /\ \E self \in Ports : Disconnect(self)
       /\ disconnects' = disconnects + 1
       /\ UNCHANGED <<stage, triple>>

Spec == Init /\ [][Next]_vars

\* Three ports that are disconnected are picked; the first is connected to
\* the second, then the second to the third.
NextTriple ==
    \/ /\ stage = 0
       /\ \E self \in Ports, conn \in Ports : Connect(self, conn)
       /\ UNCHANGED scenariovars
    \/ /\ stage = 0
       /\ \E a \in Ports, b \in Ports, c \in Ports :
              /\ a # b /\ b # c /\ a # c
              /\ disconnected(connections, a)
              /\ disconnected(connections, b)
              /\ disconnected(connections, c)
              /\ Connect(a, b)
              /\ triple' = <<a, b, c>>
       /\ stage' = 1
       /\ UNCHANGED disconnects
    \/ /\ stage = 1
       /\ Connect(triple[2], triple[3])
       /\ stage' = 2
       /\ UNCHANGED <<triple, disconnects>>

SpecTriple == Init /\ [][NextTriple]_vars

\* Ports are connected while data moves: Outputs are loaded from new arrays
\* and ticked.
NextFlow ==
    \/ \E self \in Ports, conn \in Ports :
           Connect(self, conn) /\ UNCHANGED scenariovars
    \/ \E self \in Outputs, v \in Values :
           LoadFromArray(self, v) /\ UNCHANGED scenariovars
    \/ \E self \in Outputs :
           Tick(self) /\ UNCHANGED scenariovars

SpecFlow == Init /\ [][NextFlow]_vars

\* Ports are connected; then two ports are picked and connected, and that
\* connect call is made again and again.  triple holds the two ports and
\* stage counts the calls made on them.
NextRepeat ==
    \/ /\ stage = 0
       /\ \E self \in Ports, conn \in Ports : Connect(self, conn)
       /\ UNCHANGED scenariovars
    \/ /\ stage = 0
       /\ \E a \in Ports, b \in Ports :
              /\ a # b
              /\ Connect(a, b)
              /\ connected(connections, a, b) \/ call'.error = NoError
              /\ triple' = <<a, b>>
       /\ stage' = 1
       /\ UNCHANGED disconnects
    \/ /\ stage >= 1
       /\ stage <= MaxRepeats
       /\ Connect(triple[1], triple[2])
       /\ stage' = stage + 1
       /\ UNCHANGED <<triple, disconnects>>

SpecRepeat == Init /\ [][NextRepeat]_vars

\* Ports are connected; an Output is loaded from a new array and flushed;
\* then the buffer of one of its connections may be prepared for
\* modification, and its connections are read one after the other, in any
\* order, each returned array being written into by the caller.  triple
\* holds the Output, the value loaded and the port handled last.  The
\* stage is 3 after a read with no prepare_to_modify before it, 4 after
\* prepare_to_modify and 5 after a read that follows it.
NextPush ==
    \/ /\ stage = 0
       /\ \E self \in Ports, conn \in Ports : Connect(self, conn)
       /\ UNCHANGED scenariovars
    \/ /\ stage = 0
       /\ \E o \in Outputs, v \in Values :
              /\ LoadFromArray(o, v)
              /\ triple' = <<o, v>>
       /\ stage' = 1
       /\ UNCHANGED disconnects
    \/ /\ stage = 1
       /\ Flush(triple[1])
       /\ stage' = 2
       /\ UNCHANGED <<triple, disconnects>>
    \/ /\ stage = 2
       /\ \E i \in connections[triple[1]] :
              /\ PrepareToModify(i)
              /\ triple' = <<triple[1], triple[2], i>>
       /\ stage' = 4
       /\ UNCHANGED disconnects
    \/ /\ stage \in {2, 3}
       /\ \E i \in connections[triple[1]] :
              /\ bufstate[i] = filled
              /\ ReadAndMutate(i)
              /\ triple' = <<triple[1], triple[2], i>>
       /\ stage' = 3
       /\ UNCHANGED disconnects
    \/ /\ stage \in {4, 5}
       /\ \E i \in connections[triple[1]] :
              /\ bufstate[i] = filled
              /\ ReadAndMutate(i)
              /\ triple' = <<triple[1], triple[2], i>>
       /\ stage' = 5
       /\ UNCHANGED disconnects

SpecPush == Init /\ [][NextPush]_vars

\* Ports are connected; an Output is loaded from a new array and flushed;
\* then it or a port connected to it is loaded from a new array, or is
\* cleared before or after the flush.  The Output may push instead of
\* flush, and the buffer of a port may be destroyed where the port may be
\* cleared.  triple holds the port handled last and the value loaded into
\* it.
NextLoad ==
    \/ /\ stage = 0
       /\ \E self \in Ports, conn \in Ports : Connect(self, conn)
       /\ UNCHANGED scenariovars
    \/ /\ stage = 0
       /\ \E o \in Outputs, v \in Values :
              /\ LoadFromArray(o, v)
              /\ triple' = <<o, v>>
       /\ stage' = 1
       /\ UNCHANGED disconnects
    \/ /\ stage = 1
       /\ Flush(triple[1])
       /\ stage' = 2
       /\ UNCHANGED <<triple, disconnects>>
    \/ /\ stage = 2
       /\ \E p \in {triple[1]} \cup connections[triple[1]], v \in Values :
              /\ LoadFromArray(p, v)
              /\ triple' = <<p, v>>
       /\ stage' = 3
       /\ UNCHANGED disconnects
    \/ /\ stage \in {1, 2}
       /\ \E q \in {triple[1]} \cup connections[triple[1]] :
              /\ Clear(q)
              /\ triple' = <<q>>
       /\ stage' = 4
       /\ UNCHANGED disconnects
    \/ /\ stage = 1
       /\ Push(triple[1])
       /\ stage' = 5
       /\ UNCHANGED <<triple, disconnects>>
    \/ /\ stage \in {1, 2, 5}
       /\ \E q \in {triple[1]} \cup connections[triple[1]] :
              /\ Destroy(q)
              /\ triple' = <<q>>
       /\ stage' = 6
       /\ UNCHANGED disconnects

SpecLoad == Init /\ [][NextLoad]_vars

\* Ports are connected; an Output is loaded from a new array and flushed;
\* an Input ticks, as in the drain phase of its device, and is read, as in
\* process.  triple holds the Output, the value loaded and the Input.
NextDrain ==
    \/ /\ stage = 0
       /\ \E self \in Ports, conn \in Ports : Connect(self, conn)
       /\ UNCHANGED scenariovars
    \/ /\ stage = 0
       /\ \E o \in Outputs, v \in Values :
              /\ LoadFromArray(o, v)
              /\ triple' = <<o, v>>
       /\ stage' = 1
       /\ UNCHANGED disconnects
    \/ /\ stage = 1
       /\ Flush(triple[1])
       /\ stage' = 2
       /\ UNCHANGED <<triple, disconnects>>
    \/ /\ stage = 2
       /\ \E i \in Inputs :
              /\ Tick(i)
              /\ triple' = <<triple[1], triple[2], i>>
       /\ stage' = 3
       /\ UNCHANGED disconnects
    \/ /\ stage = 3
       /\ ReadAndMutate(triple[3])
       /\ stage' = 4
       /\ UNCHANGED <<triple, disconnects>>

SpecDrain == Init /\ [][NextDrain]_vars

\* Ports are connected; a MultiIO made of some of the ports is connected to
\* a port, or a port to it.  triple holds the ports of the MultiIO and the
\* port.
NextMulti ==
    \/ /\ stage = 0
       /\ \E self \in Ports, conn \in Ports : Connect(self, conn)
       /\ UNCHANGED scenariovars
    \/ /\ stage = 0
       /\ \E members \in MultiIOs, other \in Ports :
              /\ MultiConnect(members, other)
              /\ triple' = <<members, other>>
       /\ stage' = 1
       /\ UNCHANGED disconnects
    \/ /\ stage = 0
       /\ \E members \in MultiIOs, self \in Ports :
              /\ ConnectMulti(self, members)
              /\ triple' = <<members, self>>
       /\ stage' = 1
       /\ UNCHANGED disconnects

SpecMulti == Init /\ [][NextMulti]_vars

\* Ports are connected; a port is disconnected; a port of a group is
\* connected to it.  triple holds the port that was disconnected and the
\* connections it had, then the port that was connected to it as well.
NextReconnect ==
    \/ /\ stage = 0
       /\ \E self \in Ports, conn \in Ports : Connect(self, conn)
       /\ UNCHANGED scenariovars
    \/ /\ stage = 0
       /\ \E p \in Ports :
              /\ Disconnect(p)
              /\ triple' = <<p, connections[p]>>
       /\ stage' = 1
       /\ UNCHANGED disconnects
    \/ /\ stage = 1
       /\ \E a \in Ports \ {triple[1]} :
              /\ Connect(a, triple[1])
              /\ triple' = <<triple[1], triple[2], a>>
       /\ stage' = 2
       /\ UNCHANGED disconnects

SpecReconnect == Init /\ [][NextReconnect]_vars

\* Ports are connected; an Output is loaded from a new array and may be
\* flushed; a port is loaded with the buffer of a port that holds an array,
\* which may be its own.  triple holds the Output and the value loaded,
\* then the port loaded, the value and the port whose buffer it was given.
NextReload ==
    \/ /\ stage = 0
       /\ \E self \in Ports, conn \in Ports : Connect(self, conn)
       /\ UNCHANGED scenariovars
    \/ /\ stage = 0
       /\ \E o \in Outputs, v \in Values :
              /\ LoadFromArray(o, v)
              /\ triple' = <<o, v>>
       /\ stage' = 1
       /\ UNCHANGED disconnects
    \/ /\ stage = 1
       /\ Flush(triple[1])
       /\ stage' = 2
       /\ UNCHANGED <<triple, disconnects>>
    \/ /\ stage \in {1, 2}
       /\ \E p \in Ports, q \in Ports :
              /\ array[buffer[q]] # None
              /\ LoadBuffer(p, q)
              /\ triple' = <<p, triple[2], q>>
       /\ stage' = 3
       /\ UNCHANGED disconnects

SpecReload == Init /\ [][NextReload]_vars

\* Two ports may be connected; then MaxOps times a port is loaded from a
\* new array, with the buffer of any port, which may be its own or hold no
\* array, or with None, or it ticks, which drains an Input and flushes and
\* clears an Output, or its buffer is prepared to be modified, or a device
\* ticks, which drains its Input, reads it if the device has an Output and
\* flushes and clears that.  stage counts the operations.
NextState ==
    \/ /\ stage = 0
       /\ \A q \in Ports : connections[q] = {}
       /\ \E self \in Ports, conn \in Ports : Connect(self, conn)
       /\ UNCHANGED scenariovars
    \/ /\ stage < MaxOps
       /\ \E p \in Ports, v \in Values : LoadFromArray(p, v)
       /\ stage' = stage + 1
       /\ UNCHANGED <<triple, disconnects>>
    \/ /\ stage < MaxOps
       /\ \E p \in Ports, q \in Ports : LoadBuffer(p, q)
       /\ stage' = stage + 1
       /\ UNCHANGED <<triple, disconnects>>
    \/ /\ stage < MaxOps
       /\ \E p \in Ports : LoadNone(p)
       /\ stage' = stage + 1
       /\ UNCHANGED <<triple, disconnects>>
    \/ /\ stage < MaxOps
       /\ \E p \in Ports : Tick(p)
       /\ stage' = stage + 1
       /\ UNCHANGED <<triple, disconnects>>
    \/ /\ stage < MaxOps
       /\ \E p \in Ports : PrepareToModify(p)
       /\ stage' = stage + 1
       /\ UNCHANGED <<triple, disconnects>>
    \/ /\ stage < MaxOps
       /\ \E k \in Devices : DeviceTick(k)
       /\ stage' = stage + 1
       /\ UNCHANGED <<triple, disconnects>>

SpecState == Init /\ [][NextState]_vars

\* Ports are connected; a port of a device is loaded from a new array; the
\* device ticks twice.  triple holds the device, the value loaded and the
\* kind of the port loaded.
NextDevice ==
    \/ /\ stage = 0
       /\ \E self \in Ports, conn \in Ports : Connect(self, conn)
       /\ UNCHANGED scenariovars
    \/ /\ stage = 0
       /\ \E k \in Devices, v \in Values :
              /\ LoadFromArray(input(k), v)
              /\ triple' = <<k, v, "Input">>
       /\ stage' = 1
       /\ UNCHANGED disconnects
    \/ /\ stage = 0
       /\ \E k \in Effects, v \in Values :
              /\ LoadFromArray(output(k), v)
              /\ triple' = <<k, v, "Output">>
       /\ stage' = 1
       /\ UNCHANGED disconnects
    \/ /\ stage \in {1, 2}
       /\ DeviceTick(triple[1])
       /\ stage' = stage + 1
       /\ UNCHANGED <<triple, disconnects>>

SpecDevice == Init /\ [][NextDevice]_vars

\* Devices are chained with >>; the Input of a SingleChannelEffect that has
\* a container is loaded from a new array; the container ticks.  triple
\* holds the device and the value loaded.
NextChain ==
    \/ /\ stage = 0
       /\ \E self \in Devices, other \in Devices : Chain(self, other)
       /\ UNCHANGED scenariovars
    \/ /\ stage = 0
       /\ \E k \in Effects, v \in Values :
              /\ container[k] # None
              /\ LoadFromArray(input(k), v)
              /\ triple' = <<k, v>>
       /\ stage' = 1
       /\ UNCHANGED disconnects
    \/ /\ stage = 1
       /\ ContainerTick(triple[1])
       /\ stage' = 2
       /\ UNCHANGED <<triple, disconnects>>

SpecChain == Init /\ [][NextChain]_vars

\* Devices are chained with >> and <<, or put into a collection without an
\* arrow, with contain or with |, in any order.  The stage counts the
\* calls of |.
NextCompose ==
    \/ \E self \in Devices, other \in Devices :
           Chain(self, other) /\ UNCHANGED scenariovars
    \/ \E self \in Devices, other \in Devices :
           LShift(self, other) /\ UNCHANGED scenariovars
    \/ \E self \in Devices, other \in Devices :
           Contain(self, other) /\ UNCHANGED scenariovars
    \/ /\ stage < MaxConsumes
       /\ \E k \in Devices, other \in Devices : Consume(k, other)
       /\ stage' = stage + 1
       /\ UNCHANGED <<triple, disconnects>>
    \/ \E k \in Devices, other \in Devices :
           Merge(k, other) /\ UNCHANGED scenariovars

SpecCompose == Init /\ [][NextCompose]_vars

\* device.add_io(io, label) for a new IO object; the objects are numbered
\* in the order of the calls.
AddIo(own, label) ==
    /\ dev' = add_io(dev, Len(dev.ios) + Len(dev.subdevices) + 1, own, label)
    /\ call' = [op |-> "add_io", error |-> NoError,
                label |-> IF label = NoLabel THEN own ELSE label]
    /\ UNCHANGED <<connections, datavars, container, subdevices>>

\* device.add_subdevice(subdevice, label) for a new Device object
AddSubdevice(own, label) ==
    /\ dev' = add_subdevice(dev, Len(dev.ios) + Len(dev.subdevices) + 1,
                            own, label)
    /\ call' = [op |-> "add_subdevice", error |-> NoError,
                label |-> IF label = NoLabel THEN own ELSE label]
    /\ UNCHANGED <<connections, datavars, container, subdevices>>

\* Ports and subdevices are added to one Device.  stage counts the calls.
NextAdd ==
    \/ /\ stage < MaxAdds
       /\ \E own \in Labels, label \in Labels \cup {NoLabel} :
              AddIo(own, label)
       /\ stage' = stage + 1
       /\ UNCHANGED <<triple, disconnects>>
    \/ /\ stage < MaxAdds
       /\ \E own \in Labels, label \in Labels \cup {NoLabel} :
              AddSubdevice(own, label)
       /\ stage' = stage + 1
       /\ UNCHANGED <<triple, disconnects>>

SpecAdd == Init /\ [][NextAdd]_vars

\* The version strings that are tried, and the running versions.
VersionChars == {"0", "1", "2", ".", "x", "+", "-", "_", " ", ""}
VersionStrings == UNION {[1..n -> VersionChars] : n \in 0..MaxVersionLen}
CurrentVersions == {<<"1", ".", "2", ".", "0">>, <<"2", ".", "0", ".", "1">>}

\* validate_version(patch) for a patch with the version v, under the
\* running version current
ValidateVersion(v, current) ==
    LET r == validate_version(Dict(<<[key |-> Str("version"),
                                     value |-> Str(v)]>>), current)
    IN  /\ call' = [op |-> "validate_version", version |-> v,
                    current |-> current, error |-> r.error,
                    result |-> IF r.error = NoError THEN r.result ELSE <<>>]
        /\ UNCHANGED <<connections, datavars, devicevars>>

\* One call of validate_version.
NextVersion ==
    /\ stage = 0
    /\ \E v \in VersionStrings, current \in CurrentVersions :
           ValidateVersion(v, current)
    /\ stage' = 1
    /\ UNCHANGED <<triple, disconnects>>

SpecVersion == Init /\ [][NextVersion]_vars

\* The labels of the devices and of their ports
DeviceLabel(k) == <<"d">> \o str(k)
PortLabel(p) ==
    DeviceLabel(p[2]) \o
        (IF Kind(p) = "Input" THEN <<"-input">> ELSE <<"-output">>)

\* The orders in which the set S of ports can be iterated
RECURSIVE PortSeq(_)
PortSeq(S) ==
    IF S = {} THEN {<<>>}
    ELSE UNION {{<<q>> \o rest : rest \in PortSeq(S \ {q})} : q \in S}

\* The sequences whose i-th member is one of choices[i]
RECURSIVE Product(_)
Product(choices) ==
    IF Len(choices) = 0 THEN {<<>>}
    ELSE {<<x>> \o rest : x \in choices[1], rest \in Product(Tail(choices))}

\* IO.patch_helper for the port self: the dicts it can return, one for each
\* order in which self.connections, a set, is iterated
patch_helper(c, self) ==
    {Dict(<<[key |-> Str("class"), value |-> Str(Kind(self))],
            [key |-> Str("label"), value |-> Str(PortLabel(self))],
            [key |-> Str("connections"),
             value |-> Tuple([i \in 1..Len(conns) |->
                                 Str(PortLabel(conns[i]))])]>>) :
        conns \in PortSeq(c[self])}

\* The nodes of the patch that device k can give, and those of the
\* DeviceCollection with the subdevices subs
device_node(c, k) ==
    {Dict(<<[key |-> Str("class"),
             value |-> Str(IF k \in Effects THEN "SingleChannelEffect"
                           ELSE "MonoInputDevice")],
            [key |-> Str("label"), value |-> Str(DeviceLabel(k))],
            [key |-> Str("subdevices"), value |-> List(<<>>)],
            [key |-> Str("ios"), value |-> List(helpers)]>>) :
        helpers \in Product([i \in 1..Len(ios(k)) |->
                                patch_helper(c, ios(k)[i])])}

collection_node(c, subs) ==
    {Dict(<<[key |-> Str("class"), value |-> Str("DeviceCollection")],
            [key |-> Str("label"), value |-> Str(<<"container">>)],
            [key |-> Str("subdevices"), value |-> List(nodes)],
            [key |-> Str("ios"), value |-> List(<<>>)]>>) :
        nodes \in Product([i \in 1..Len(subs) |-> device_node(c, subs[i])])}

\* The patch exported for the tree node
make_patch(node, version) ==
    Dict(<<[key |-> Str("version"), value |-> Str(version)],
           [key |-> Str("schema"), value |-> Str(<<"json">>)],
           [key |-> Str("name"), value |-> Str(<<"demo">>)],
           [key |-> Str("tree"), value |-> node]>>)

\* The node with the classes in place of their names
RECURSIVE resolve_classes(_)
resolve_classes(node) ==
    Dict([i \in 1..Len(node.val) |->
        LET item == node.val[i] IN
        IF item.key.val = "class"
            THEN [key |-> item.key, value |-> Class(item.value.val)]
        ELSE IF item.key.val \in {"subdevices", "ios"}
            THEN [key |-> item.key,
                  value |-> List([j \in 1..Len(item.value.val) |->
                                     resolve_classes(item.value.val[j])])]
        ELSE item])

\* The container of device k is exported and the patch is imported with
\* parse_patch; the tree of the patch, with class names or with the classes
\* themselves, is also given to make_device and make_connections.
Import(k, resolved) ==
    /\ container[k] # None
    /\ \E node \in collection_node(connections, subdevices[container[k]]) :
        LET current == <<"1", ".", "2", ".", "0">>
            tree    == IF resolved THEN resolve_classes(node) ELSE node
            parsed  == parse_patch(make_patch(tree, current), current)
            made    == make_device(tree)
        IN  call' = [op |-> "import", tree |-> node, resolved |-> resolved,
                     error |-> parsed.error, device |-> parsed.device,
                     made_error |-> made.error,
                     made |-> IF made.error # NoError THEN <<>>
                              ELSE make_connections(made.device,
                                       made.connections_to_make)]
    /\ UNCHANGED <<connections, datavars, devicevars>>

\* Devices are chained with >>; then a container is exported and imported.
NextRoundTrip ==
    \/ /\ stage = 0
       /\ \E self \in Effects, other \in Devices : Chain(self, other)
       /\ UNCHANGED scenariovars
    \/ /\ stage = 0
       /\ \E k \in Devices, resolved \in BOOLEAN : Import(k, resolved)
       /\ stage' = 1
       /\ UNCHANGED <<triple, disconnects>>

SpecRoundTrip == Init /\ [][NextRoundTrip]_vars

\* The patches that are tried: each of version, schema, name and tree is
\* left out, given a value of its type or given a value of another type,
\* and a field that is not expected is there or not.
PatchFields(key, values) ==
    {<<>>} \cup {<<[key |-> Str(key), value |-> v]>> : v \in values}

TreeNode ==
    Dict(<<[key |-> Str("class"), value |-> Class("DeviceCollection")],
           [key |-> Str("label"), value |-> Str(<<"container">>)],
           [key |-> Str("subdevices"), value |-> List(<<>>)],
           [key |-> Str("ios"), value |-> List(<<>>)]>>)

Patches ==
    {Dict(v \o s \o n \o t \o x) :
        v \in PatchFields("version",
                  {Str(<<"1", ".", "0", ".", "0">>),
                   Str(<<"2", ".", "0", ".", "0">>),
                   Str(<<"1", ".", "0">>), Integer(1)}),
        s \in PatchFields("schema", {Str(<<"json">>), Integer(1)}),
        n \in PatchFields("name", {Str(<<"demo">>), Integer(1)}),
        t \in PatchFields("tree", {TreeNode, Str(<<"tree">>)}),
        x \in PatchFields("extra", {Str(<<"x">>)})}

\* parse_patch(patch) under the running version current
ParsePatch(patch, current) ==
    LET r == parse_patch(patch, current)
    IN  /\ call' = [op |-> "parse_patch", patch |-> patch,
                    current |-> current, error |-> r.error,
                    device |-> r.device]
        /\ UNCHANGED <<connections, datavars, devicevars>>

\* One call of parse_patch.
NextPatch ==
    /\ stage = 0
    /\ \E patch \in Patches : ParsePatch(patch, <<"1", ".", "2", ".", "0">>)
    /\ stage' = 1
    /\ UNCHANGED <<triple, disconnects>>

SpecPatch == Init /\ [][NextPatch]_vars

\* Ports are connected with the arrow syntax only.
NextArrow ==
    \/ \E self \in Ports, other \in Ports :
           ArrowGt(self, other) /\ UNCHANGED scenariovars
    \/ \E self \in Ports, other \in Ports :
           ArrowLt(self, other) /\ UNCHANGED scenariovars

SpecArrow == Init /\ [][NextArrow]_vars

----------------------------------------------------------------------------
(* The connection graph as a whole                                         *)

\* The ports linked to p by a path of connections, p included.
RECURSIVE Closure(_, _)
Closure(c, S) ==
    LET S2 == S \cup UNION {c[q] : q \in S}
    IN  IF S2 = S THEN S ELSE Closure(c, S2)

Group(c, p) == Closure(c, {p})

\* Every connected port has the peer set of each of its peers.
IsClique(c) ==
    \A p \in Ports : \A q \in c[p] : c[q] = (c[p] \cup {p}) \ {q}

----------------------------------------------------------------------------
(* Properties                                                              *)

\* C1: in every state reached by connect and disconnect calls the connection
\* relation is transitively closed: every member of a connected group has
\* the same peer set, the group minus itself.
C1_ConnectedGroupsAreCliques == IsClique(connections)

\* C2: no two distinct Outputs are ever linked by a path of connections; in
\* particular no Input has two Outputs in its connection set.
C2_NoOutputLinkedToOutput ==
    \A o1 \in Outputs, o2 \in Outputs :
        o1 # o2 => o2 \notin Group(connections, o1)

\* C3: every member of an Output's own connection set is an Input.
C3_OutputPeersAreInputs ==
    \A o \in Outputs : connections[o] \subseteq Inputs

\* An Output with several peers that a path links to another Output.
C3_Witness ==
    \E o \in Outputs, o2 \in Outputs :
        /\ o # o2
        /\ Cardinality(connections[o]) >= 2
        /\ o2 \in Group(connections, o)

\* C4: connect(a, b), with an Output in the group of a and a different
\* Output in the group of b, raises ConnectionError and leaves every
\* connection set as it was.
C4_TwoOutputGroupsRaise ==
    [][\A a \in Ports, b \in Ports :
          ( /\ \E oa \in Group(connections, a) \cap Outputs,
                  ob \in Group(connections, b) \cap Outputs : oa # ob
            /\ Connect(a, b) )
          => ( /\ IsConnectionError(call'.error)
               /\ connections' = connections )]_vars

\* C5: the tick of an Output loads its buffer into every port that a path
\* of connections links to it: each is Filled afterwards and they all hold
\* the one array, with the data, that the Output held.
C5_TickReachesGroup ==
    [][\A o \in Outputs :
          Tick(o) =>
              \A q \in Group(connections, o) \ {o} :
                  /\ bufstate'[q] = IF Kind(q) = "Input" THEN filled
                                    ELSE ready_to_push
                  /\ array_value(Mem', array'[buffer'[q]])
                         = array_value(Mem, array[buffer[o]])
                  /\ \A r \in Group(connections, o) \ {o} :
                         array'[buffer'[q]] = array'[buffer'[r]]]_vars

\* C6: the connection relation is symmetric in every state reached by
\* connect and disconnect calls, whether they succeed or raise.
C6_Symmetric ==
    \A p \in Ports, q \in Ports :
        q \in connections[p] <=> p \in connections[q]

\* A successful connect has merged two groups into one that is not a clique.
C6_Witness ==
    /\ call.op = "connect"
    /\ call.error = NoError
    /\ ~IsClique(connections)

\* C7: for three ports a, b, c that start disconnected, if connect(a, b) and
\* then connect(b, c) succeed, each of the three has exactly the other two
\* in its connection set.
C7_TripleIsClique ==
    [][( /\ stage = 1 /\ stage' = 2
         /\ call.error = NoError /\ call'.error = NoError )
       => ( /\ connections'[triple[1]] = {triple[2], triple[3]}
            /\ connections'[triple[2]] = {triple[1], triple[3]}
            /\ connections'[triple[3]] = {triple[1], triple[2]} )]_vars

\* Both connects of the scenario have succeeded.
C7_Witness ==
    /\ stage = 2
    /\ call.error = NoError
    /\ triple[1] \in connections[triple[2]]
    /\ triple[3] \in connections[triple[2]]

\* C8: connect(a, a) raises ConnectionError for every port a.
C8_SelfConnectRaises ==
    [][\A a \in Ports :
          Connect(a, a) => IsConnectionError(call'.error)]_vars

\* C9: in every state that is reached, connect(o1, o2) of two distinct
\* Outputs raises ConnectionError whichever way it ends; afterwards
\* o1.connected(o2) is false and the connection set of o1 is what it was.
C9_OutputToOutputRaises ==
    \A o1 \in Outputs, o2 \in Outputs :
        o1 # o2 =>
            \A r \in connect_outcomes(connections, o1, o2) :
                /\ IsConnectionError(r.error)
                /\ ~connected(r.connections, o1, o2)
                /\ r.connections[o1] = connections[o1]

\* A connect has raised for two Outputs that both have connections.
C9_Witness ==
    /\ call.op = "connect"
    /\ call.error.class = "ConnectionError"
    /\ \E o1 \in Outputs, o2 \in Outputs :
          /\ call.error.labels = <<o1, o2>>
          /\ connections[o1] # {}
          /\ connections[o2] # {}

\* C10: when connect raises, the connection set, the buffer and the state
\* flag of every port are what they were before the call.
C10_RaiseChangesNothing ==
    [][(call'.op = "connect" /\ IsConnectionError(call'.error))
       => ( /\ connections' = connections
            /\ bufstate' = bufstate
            /\ buffer' = buffer
            /\ array' = array
            /\ refs' = refs
            /\ refset' = refset
            /\ contents' = contents )]_vars

\* A connect has raised while an Input is Filled, an Output is ReadyToPush
\* and both hold an array.
C10_Witness ==
    /\ call.op = "connect"
    /\ IsConnectionError(call.error)
    /\ \E i \in Inputs, o \in Outputs :
          /\ bufstate[i] = filled /\ array[buffer[i]] # None
          /\ bufstate[o] = ready_to_push /\ array[buffer[o]] # None
          /\ connections[i] # {}

\* C11: connect(a, b) on two ports that are connected already returns
\* without error and changes no connection set, and a connect that has
\* succeeded changes nothing when it is repeated, however often.
C11_ConnectIdempotent ==
    [][/\ ( /\ stage = 0 /\ stage' = 1
            /\ connected(connections, triple'[1], triple'[2]) )
          => ( /\ call'.error = NoError
               /\ connections' = connections )
       /\ ( stage >= 1 /\ stage' = stage + 1 )
          => ( /\ call'.error = NoError
               /\ connections' = connections )]_vars

\* The connect of two ports that other ports are connected to has been
\* repeated MaxRepeats times.
C11_Witness ==
    /\ stage = MaxRepeats + 1
    /\ call.op = "connect"
    /\ call.error = NoError
    /\ Cardinality(connections[triple[1]]) >= 2
    /\ Cardinality(connections[triple[2]]) >= 2

\* C12: disconnect(p) takes p out of the connection set of every port and
\* leaves the connection set of p empty; for other ports q and r, whether q
\* is connected to r is what it was; on a disconnected port it changes
\* nothing; no error is raised.
C12_DisconnectFrame ==
    [][\A p \in Ports :
          (call'.op = "disconnect" /\ Disconnect(p))
          => ( /\ call'.error = NoError
               /\ connections'[p] = {}
               /\ \A q \in Ports : p \notin connections'[q]
               /\ \A q \in Ports \ {p}, r \in Ports \ {p} :
                      connected(connections', q, r)
                          <=> connected(connections, q, r)
               /\ disconnected(connections, p)
                      => connections' = connections )]_vars

\* A disconnect has left a port without connections while three other
\* ports are still connected to each other.
C12_Witness ==
    /\ call.op = "disconnect"
    /\ call.error = NoError
    /\ \E p \in Ports : connections[p] = {}
    /\ \E q \in Ports : Cardinality(connections[q]) >= 2

\* C13: in every state that is reached, an arrow out of an Input
\* (input > x) and an arrow into an Output (output < x) raise
\* ConnectionError and change no connection set; input < output and
\* output > input connect the two ports: they do so without error when both
\* are disconnected, and whenever they end without error each of the two is
\* connected to the other.
ArrowRaises(r) ==
    /\ r.error.class = "ConnectionError"
    /\ r.connections = connections

ArrowConnects(r, s, x) ==
    /\ r.error = NoError
           => ( /\ connected(r.connections, s, x)
                /\ connected(r.connections, x, s) )
    /\ ( disconnected(connections, s) /\ disconnected(connections, x) )
           => ( /\ r.error = NoError
                /\ r.connections[s] = {x}
                /\ r.connections[x] = {s} )

C13_ArrowDirection ==
    /\ \A i \in Inputs, x \in Ports :
           \A r \in gt_outcomes(connections, i, x) : ArrowRaises(r)
    /\ \A o \in Outputs, x \in Ports :
           \A r \in lt_outcomes(connections, o, x) : ArrowRaises(r)
    /\ \A i \in Inputs, o \in Outputs :
           /\ \A r \in lt_outcomes(connections, i, o) : ArrowConnects(r, i, o)
           /\ \A r \in gt_outcomes(connections, o, i) : ArrowConnects(r, o, i)

\* An arrow out of an Input that has connections has raised.
C13_Witness ==
    /\ call.op = "gt"
    /\ call.error.class = "ConnectionError"
    /\ \E i \in Inputs :
          /\ call.error.labels = <<i>>
          /\ \E o \in Outputs : o \in connections[i]

\* C14: after an Output holding an array flushes to its connections, the
\* buffers of any two of them are equal in value to that array and
\* reference the same array; after prepare_to_modify on the buffer of one
\* of them, it and every other one are still equal in value to that array
\* and no longer reference the same array.
C14_CopyOnWrite ==
    /\ stage = 2 =>
           \A i \in connections[triple[1]], j \in connections[triple[1]] :
               /\ array[buffer[i]] # None
               /\ array_value(Mem, array[buffer[i]]) = triple[2]
               /\ same_ref(Mem, buffer[i], buffer[j])
    /\ stage = 4 =>
           \A j \in connections[triple[1]] \ {triple[3]} :
               /\ array_value(Mem, array[buffer[triple[3]]]) = triple[2]
               /\ array_value(Mem, array[buffer[j]]) = triple[2]
               /\ buffer_eq(Mem, buffer[triple[3]], buffer[j])
               /\ ~same_ref(Mem, buffer[triple[3]], buffer[j])

\* prepare_to_modify has been called on one of three Inputs an Output has
\* flushed to.
C14_Witness ==
    /\ stage = 4
    /\ call.op = "prepare_to_modify"
    /\ Cardinality(connections[triple[1]] \cap Inputs) >= 3

\* C15: after an Output flushes to several Inputs, the read of each Input
\* returns an array equal in value to the data flushed, whichever Inputs
\* were read before and whatever was written into the arrays they returned;
\* it leaves the Input Empty with an empty buffer, and no SampleBuffer of
\* any port references the array returned.
C15_ReadIsPrivate ==
    stage \in {3, 5} =>
        /\ call.result # None
        /\ call.value = triple[2]
        /\ \A h \in Handles : array[h] # call.result
        /\ bufstate[triple[3]] = empty
        /\ sb_empty(Mem, buffer[triple[3]])

\* Three Inputs an Output has flushed to have been read one after the
\* other, and the arrays returned have been written into.
C15_Witness ==
    /\ stage = 3
    /\ call.op = "read"
    /\ contents[call.result] = Mutated
    /\ Cardinality({i \in connections[triple[1]] \cap Inputs :
                        bufstate[i] = empty}) >= 3

\* C17: after flush() on an Output, the Output is Empty and its buffer is
\* empty (no array, itself its only owner), and every port in its
\* connection set is Filled and holds the data the Output held before.
C17_FlushMovesData ==
    stage = 2 =>
        /\ bufstate[triple[1]] = empty
        /\ sb_empty(Mem, buffer[triple[1]])
        /\ refset[refs[buffer[triple[1]]]] = {buffer[triple[1]]}
        /\ \A q \in connections[triple[1]] :
               /\ bufstate[q] = filled
               /\ array[buffer[q]] # None
               /\ array_value(Mem, array[buffer[q]]) = triple[2]

\* An Output with two connections has been flushed.
C17_Witness ==
    /\ stage = 2
    /\ call.op = "flush"
    /\ Cardinality(connections[triple[1]]) = 2

\* C16: load puts an Input into state Filled and an Output into state
\* ReadyToPush and gives it the data loaded; the state and the buffer of
\* every port connected to it are what they were; clear puts a port into
\* state Empty.
C16_LoadAndClear ==
    [][/\ stage' \in {1, 3} =>
           /\ bufstate'[triple'[1]] =
                  IF Kind(triple'[1]) = "Input" THEN filled ELSE ready_to_push
           /\ array_value(Mem', array'[buffer'[triple'[1]]]) = triple'[2]
           /\ \A q \in connections[triple'[1]] :
                  /\ bufstate'[q] = bufstate[q]
                  /\ (array'[buffer'[q]] = None) <=> (array[buffer[q]] = None)
                  /\ array_value(Mem', array'[buffer'[q]])
                         = array_value(Mem, array[buffer[q]])
                  /\ sb_empty(Mem', buffer'[q]) <=> sb_empty(Mem, buffer[q])
       /\ stage' = 4 => bufstate'[triple'[1]] = empty]_vars

\* An Output whose connections are Filled has been loaded.
C16_Witness ==
    /\ stage = 3
    /\ call.op = "load"
    /\ Kind(triple[1]) = "Output"
    /\ bufstate[triple[1]] = ready_to_push
    /\ Cardinality(connections[triple[1]]) >= 2
    /\ \A q \in connections[triple[1]] :
           bufstate[q] = filled /\ array[buffer[q]] # None

\* C18 as stated: after a tick of a SingleChannelEffect whose Input was
\* loaded, its Output is ReadyToPush and holds the data.
C18_OutputStaysReadyToPush ==
    (stage >= 2 /\ triple[3] = "Input" /\ triple[1] \in Effects) =>
        /\ bufstate[output(triple[1])] = ready_to_push
        /\ array_value(Mem, array[buffer[output(triple[1])]]) = triple[2]

\* C18, amended: after a tick of a SingleChannelEffect whose Input was
\* loaded, its Output is Empty with an empty buffer and every port connected
\* to the Output is Filled and holds the data; after the second tick the
\* same is true, and the second tick hands nothing to transform unless the
\* Output is connected to the Input of the device.
C18_OutputPushedAndEmptied ==
    (stage >= 2 /\ triple[3] = "Input" /\ triple[1] \in Effects) =>
        /\ bufstate[output(triple[1])] = empty
        /\ sb_empty(Mem, buffer[output(triple[1])])
        /\ \A q \in connections[output(triple[1])] :
               /\ bufstate[q] = filled
               /\ array_value(Mem, array[buffer[q]]) = triple[2]
        /\ (stage = 3 /\ input(triple[1]) \notin connections[output(triple[1])])
               => call.log[1].data = None

\* A SingleChannelEffect whose Output has two connections, none of them
\* its own Input, has ticked twice.
C18_Witness ==
    /\ stage = 3
    /\ triple[3] = "Input"
    /\ triple[1] \in Effects
    /\ Cardinality(connections[output(triple[1])]) = 2
    /\ input(triple[1]) \notin connections[output(triple[1])]
    /\ call.log[1].data = None

\* C19: when Device.tick returns no port of the device is ReadyToPush; if
\* process was given data, or the Output was loaded before the tick, the
\* Output is Empty and every port connected to it is Filled with that data;
\* the Input of the device is Empty unless the Output pushed to it.
C19_TickPhases ==
    stage >= 2 =>
        /\ \A i \in 1..Len(ios(triple[1])) :
               bufstate[ios(triple[1])[i]] # ready_to_push
        /\ (triple[1] \in Effects
                /\ (call.log[1].data # None \/ stage = 2)) =>
               /\ bufstate[output(triple[1])] = empty
               /\ \A q \in connections[output(triple[1])] :
                      /\ bufstate[q] = filled
                      /\ array_value(Mem, array[buffer[q]]) = triple[2]
        /\ (triple[1] \in Effects
                => input(triple[1]) \notin connections[output(triple[1])])
               => bufstate[input(triple[1])] = empty

\* A tick of a SingleChannelEffect has drained its Input, processed the
\* data and flushed its Output to a connection.
C19_Witness ==
    /\ stage = 2
    /\ triple[3] = "Input"
    /\ triple[1] \in Effects
    /\ call.log[1].data = triple[2]
    /\ connections[output(triple[1])] # {}
    /\ \A q \in connections[output(triple[1])] : bufstate[q] = filled

\* Device a feeds device b: the Output of a pushes to the Input of b.
Feeds(a, b) == a \in Effects /\ input(b) \in connections[output(a)]

\* The devices of the container of k that k reaches through devices of
\* that container, each feeding the next.
RECURSIVE ChainFrom(_, _)
ChainFrom(k, S) ==
    LET S2 == S \cup {b \in Devices :
                         /\ container[b] = container[k]
                         /\ \E a \in S : Feeds(a, b)}
    IN  IF S2 = S THEN S ELSE ChainFrom(k, S2)

\* The place of device d among the subdevices of its container.
Place(d) ==
    CHOOSE i \in 1..Len(subdevices[container[d]]) :
        subdevices[container[d]][i] = d

\* Device d was ticked once during the last container tick.
TickedOnce(d) ==
    Cardinality({i \in 1..Len(call.log) : call.log[i].device = d}) = 1

\* The data v came to device d during the last container tick: the
\* transform of a SingleChannelEffect was given it, the Input of a
\* MonoInputDevice holds it.
Received(d, v) ==
    IF d \in Effects
        THEN \E i \in 1..Len(call.log) :
                 call.log[i].device = d /\ call.log[i].data = v
        ELSE array_value(Mem, array[buffer[input(d)]]) = v

\* No device of the container of k feeds itself through other devices of
\* that container.
NoLoop(k) ==
    \A d \in Devices :
        container[d] = container[k] =>
            d \notin ChainFrom(d, {b \in Devices :
                                      /\ container[b] = container[d]
                                      /\ Feeds(d, b)})

\* C20 as stated: after the tick of the container every device of the chain
\* that starts at the loaded device was ticked once and received the data,
\* whatever the order of the subdevices, if the chain has no loop.
C20_AnyOrderCarriesData ==
    (stage = 2 /\ NoLoop(triple[1])) =>
        \A d \in ChainFrom(triple[1], {triple[1]}) :
            TickedOnce(d) /\ Received(d, triple[2])

\* C20, amended: if every device of the container was added to it before
\* the devices it feeds, then after the tick of the container every device
\* of the chain that starts at the loaded device was ticked once and
\* received the data.
C20_InsertionOrderCarriesData ==
    (/\ stage = 2
     /\ \A a, b \in Devices :
            (/\ container[a] = container[triple[1]]
             /\ container[b] = container[triple[1]]
             /\ Feeds(a, b)) => Place(a) < Place(b)) =>
        \A d \in ChainFrom(triple[1], {triple[1]}) :
            TickedOnce(d) /\ Received(d, triple[2])

\* A chain of three devices, added to one container in the order of the
\* chain, has ticked and its last device holds the data.
C20_Witness ==
    /\ stage = 2
    /\ Cardinality(ChainFrom(triple[1], {triple[1]})) >= 3
    /\ \A a, b \in Devices :
           (/\ container[a] = container[triple[1]]
            /\ container[b] = container[triple[1]]
            /\ Feeds(a, b)) => Place(a) < Place(b)
    /\ \E d \in ChainFrom(triple[1], {triple[1]}) \ Effects :
           Received(d, triple[2])

\* C21: read clones the array of a port only if the buffer of another port
\* holds the same array; the one Input an Output was flushed to is read
\* without a clone.
C21_CloneOnlyWhenShared ==
    /\ \A p \in Ports :
           (array[buffer[p]] # None
               /\ read_result(Mem, p, {}) # array[buffer[p]]) =>
               \E q \in Ports \ {p} : array[buffer[q]] = array[buffer[p]]
    /\ (stage = 2 /\ Cardinality(connections[triple[1]]) = 1) =>
           \A i \in connections[triple[1]] :
               read_result(Mem, i, {}) = array[buffer[i]]

\* The key unique_key is to give: the label itself if no item has it,
\* else the label followed by the least number from 2 on that makes a key
\* no item has.
FirstFree(l, d) ==
    IF l \notin dict_keys(d) THEN l
    ELSE l \o str(Min({n \in 2..(Len(d) + 2) :
                          (l \o str(n)) \notin dict_keys(d)}))

\* Dict d2 is dict d with one more item, the object value under key.
GrownBy(d, d2, key, value) ==
    /\ Len(d2) = Len(d) + 1
    /\ SubSeq(d2, 1, Len(d)) = d
    /\ d2[Len(d2)] = [key |-> key, value |-> value]
    /\ key \notin dict_keys(d)

\* C22: every add_io and add_subdevice call adds one item to its dict under
\* a key no earlier item has, the label or the label with the least free
\* suffix from 2 on, keeps every earlier item and leaves the other dict
\* alone.
C22_UniqueKeys ==
    [][/\ call'.op = "add_io" =>
           /\ GrownBy(dev.ios, dev'.ios, FirstFree(call'.label, dev.ios),
                      stage + 1)
           /\ dev'.subdevices = dev.subdevices
       /\ call'.op = "add_subdevice" =>
           /\ GrownBy(dev.subdevices, dev'.subdevices,
                      FirstFree(call'.label, dev.subdevices), stage + 1)
           /\ dev'.ios = dev.ios]_vars

\* Three ports were added under the label x, then a subdevice under x.
C22_Witness ==
    /\ Len(dev.ios) = 3
    /\ dev.ios[1].key = <<"x">>
    /\ dev.ios[2].key = <<"x", "2">>
    /\ dev.ios[3].key = <<"x", "3">>
    /\ Len(dev.subdevices) = 1
    /\ dev.subdevices[1].key = <<"x">>

\* The number of dots in the characters s, the characters before the first
\* dot, and the number that decimal digits stand for.
Dots(s) == Cardinality({i \in 1..Len(s) : s[i] = "."})
Major(s) ==
    SubSeq(s, 1, Min({i \in 1..(Len(s) + 1) : i = Len(s) + 1 \/ s[i] = "."}) - 1)
RECURSIVE Decimal(_)
Decimal(s) ==
    IF s = <<>> THEN 0
    ELSE Decimal(Tail(s)) +
         (CASE Head(s) = "0" -> 0 [] Head(s) = "1" -> 1 [] Head(s) = "2" -> 2
            [] Head(s) = "3" -> 3 [] Head(s) = "4" -> 4 [] Head(s) = "5" -> 5
            [] Head(s) = "6" -> 6 [] Head(s) = "7" -> 7 [] Head(s) = "8" -> 8
            [] Head(s) = "9" -> 9) * (10 ^ (Len(s) - 1))
\* The str s without the whitespace around it, and without its sign
Core(s) ==
    LET inner == {i \in 1..Len(s) : ~IsSpace(s[i])}
    IN  IF inner = {} THEN <<>>
        ELSE SubSeq(s, Min(inner), CHOOSE i \in inner : \A j \in inner : j <= i)
Body(s) ==
    IF Core(s) # <<>> /\ Head(Core(s)) \in {"+", "-"} THEN Tail(Core(s))
    ELSE Core(s)

\* The str s is a number: digits, with single underscores between them,
\* after an optional sign and within optional whitespace.
Numeric(s) ==
    /\ Body(s) # <<>>
    /\ \A i \in 1..Len(Body(s)) :
           \/ IsDigit(Body(s)[i])
           \/ /\ Body(s)[i] = "_"
              /\ 1 < i /\ i < Len(Body(s))
              /\ IsDigit(Body(s)[i - 1]) /\ IsDigit(Body(s)[i + 1])

\* The number that s is
Number(s) ==
    IF Head(Core(s)) = "-" THEN 0 - Decimal(SelectSeq(Body(s), IsDigit))
    ELSE Decimal(SelectSeq(Body(s), IsDigit))

\* C24: validate_version raises IncompatibleVersionError exactly when the
\* version has not three parts or its major part is a number greater than
\* the running one; a version of three parts whose major part is a number
\* that is not greater is returned as its three parts, whatever the other
\* two are.
C24_VersionCheck ==
    call.op = "validate_version" =>
        /\ call.error = IncompatibleVersionError <=>
               \/ Dots(call.version) # 2
               \/ /\ Numeric(Major(call.version))
                  /\ Number(Major(call.version))
                         > Number(Major(call.current))
        /\ (/\ Dots(call.version) = 2
            /\ Numeric(Major(call.version))
            /\ Number(Major(call.version)) <= Number(Major(call.current))) =>
               /\ call.error = NoError
               /\ Len(call.result) = 3
               /\ call.result[1] \o <<".">> \o call.result[2] \o <<".">>
                      \o call.result[3] = call.version

\* A version with the running major number and a minor part that is no
\* number was accepted.
C24_Witness ==
    /\ call.op = "validate_version"
    /\ call.error = NoError
    /\ call.version = <<"2", ".", "x", ".", "1">>
    /\ call.current = <<"2", ".", "0", ".", "1">>

\* The patch has the field key, with a value of the type datatype.
HasField(patch, key) == in_dict(Str(key), patch)
WellTyped(patch, key, datatype) ==
    HasField(patch, key) /\ dict_get(patch, Str(key)).type = datatype

\* C23: parse_patch raises InvalidPatchError if one of version, schema,
\* name and tree is missing or another field is there, and returns a device
\* for a patch of just these four fields with values of their types and a
\* version that is compatible.
C23_PatchValidation ==
    call.op = "parse_patch" =>
        LET fields == {call.patch.val[i].key.val :
                           i \in 1..Len(call.patch.val)}
            four   == {"version", "schema", "name", "tree"}
        IN  /\ fields # four => call.error = InvalidPatchError
            /\ (/\ fields = four
                /\ WellTyped(call.patch, "version", "str")
                /\ WellTyped(call.patch, "schema", "str")
                /\ WellTyped(call.patch, "name", "str")
                /\ WellTyped(call.patch, "tree", "dict")
                /\ validate_version(call.patch, call.current).error = NoError)
                   => (call.error = NoError /\ call.device # <<>>)

\* The classes, labels and connections of a tree node of a patch and of a
\* device that make_device has made.
RECURSIVE NodeTopology(_)
NodeTopology(node) ==
    LET iosp == dict_get(node, Str("ios")).val
        subs == dict_get(node, Str("subdevices")).val
    IN  [class |-> dict_get(node, Str("class")).val,
         label |-> dict_get(node, Str("label")).val,
         ios |-> [i \in 1..Len(iosp) |->
                     [class |-> dict_get(iosp[i], Str("class")).val,
                      label |-> dict_get(iosp[i], Str("label")).val,
                      connections |->
                          {dict_get(iosp[i], Str("connections")).val[j].val :
                               j \in 1..Len(dict_get(iosp[i],
                                                     Str("connections")).val)}]],
         subdevices |-> [i \in 1..Len(subs) |-> NodeTopology(subs[i])]]

RECURSIVE DeviceTopology(_)
DeviceTopology(d) ==
    [class |-> d.class, label |-> d.label,
     ios |-> [i \in 1..Len(d.ios) |->
                 [class |-> d.ios[i].value.class,
                  label |-> d.ios[i].value.label,
                  connections |-> d.ios[i].value.connections]],
     subdevices |-> [i \in 1..Len(d.subdevices) |->
                        DeviceTopology(d.subdevices[i].value)]]

\* C25: importing the patch exported for a container gives a device tree
\* with the classes, labels and connections of the one exported, with
\* parse_patch and with make_device and make_connections on the tree.
C25_RoundTrip ==
    call.op = "import" =>
        /\ call.error = NoError
        /\ DeviceTopology(call.device) = NodeTopology(call.tree)
        /\ call.made_error = NoError
        /\ DeviceTopology(call.made) = NodeTopology(call.tree)

\* The SampleBuffers that share the refs set of h, h left out.
Sharers(st, h) == st.refset[st.refs[h]] \ {h}

\* C26: prepare_to_modify on the buffer of a port that shares its refs set
\* gives it a new array with the same data and the refs set {self}, takes
\* it out of the old set and leaves the other members with their array and
\* set; a second call changes nothing, nor does a call on a buffer that
\* shares with no one.
C26_PrepareIdempotent ==
    \A p \in Ports :
        LET h   == buffer[p]
            st1 == prepare_to_modify(Mem, h, {})
            st2 == prepare_to_modify(st1, h, {})
        IN  st1.ok =>
              /\ st2 = st1
              /\ Sharers(Mem, h) = {} => st1 = Mem
              /\ Sharers(Mem, h) # {} =>
                    /\ st1.array[h] \notin {None, array[h]}
                    /\ \A g \in Handles \ {h} : st1.array[g] # st1.array[h]
                    /\ st1.contents[st1.array[h]] = array_value(Mem, array[h])
                    /\ st1.refset[st1.refs[h]] = {h}
                    /\ st1.refset[refs[h]] = Sharers(Mem, h)
                    /\ \A g \in Sharers(Mem, h) :
                           /\ st1.array[g] = array[g]
                           /\ st1.refs[g] = refs[g]
                           /\ st1.contents[array[g]] = contents[array[g]]

\* prepare_to_modify has taken the buffer of an Input out of the refs set
\* it shared with the buffer of another Input, which holds the old array.
C26_Witness ==
    /\ stage = 4
    /\ call.op = "prepare_to_modify"
    /\ Sharers(Mem, buffer[triple[3]]) = {}
    /\ \E q \in Inputs \ {triple[3]} :
           /\ array[buffer[q]] \notin {None, array[buffer[triple[3]]]}
           /\ contents[array[buffer[q]]] = contents[array[buffer[triple[3]]]]
           /\ Sharers(Mem, buffer[q]) # {}

\* C27: destroy on the buffer of a port leaves it empty, with no array and
\* the refs set {self}, and makes no array; the other members of its old
\* refs set keep their array and that set, which has lost the buffer.
C27_DestroyFrame ==
    \A p \in Ports :
        LET h   == buffer[p]
            st1 == destroy(Mem, h)
        IN  /\ sb_empty(st1, h)
            /\ st1.array[h] = None /\ st1.refset[st1.refs[h]] = {h}
            /\ st1.contents = contents
            /\ \A g \in Handles \ {h} : st1.array[g] = array[g]
            /\ \A g \in Sharers(Mem, h) :
                   /\ st1.refs[g] = refs[g]
                   /\ st1.refset[st1.refs[g]] = Sharers(Mem, h)

\* An Output was flushed to two Inputs and one of them was cleared: its
\* buffer is empty and has left the refs set of the buffer of the other
\* Input, which is still Filled and holds the array.
C27_Witness ==
    /\ stage = 4
    /\ call.op = "clear"
    /\ triple[1] \in Inputs
    /\ sb_empty(Mem, buffer[triple[1]])
    /\ \E o \in connections[triple[1]] :
           \E q \in connections[o] \ {triple[1]} :
               /\ bufstate[o] = empty
               /\ bufstate[q] = filled
               /\ array[buffer[q]] # None
               /\ buffer[triple[1]] \notin refset[refs[buffer[q]]]

\* C28: every live SampleBuffer is in its own refs set; the members of its
\* refs set hold the same array and the very same set; two SampleBuffers
\* that hold the same array are in each other's refs set.  from_array is
\* given new arrays only.
C28_RefsConsistent ==
    \A h \in Live(Mem, {}) :
        /\ h \in refset[refs[h]]
        /\ \A g \in refset[refs[h]] :
               /\ g \in Live(Mem, {})
               /\ array[g] = array[h]
               /\ refs[g] = refs[h]
        /\ \A g \in Live(Mem, {}) :
               array[g] # None /\ array[g] = array[h] => g \in refset[refs[h]]

\* One Input has taken a private copy of the array an Output pushed to two
\* Inputs: the other Input still shares the pushed array with the
\* SampleBuffer from_array made, and the Output's buffer was destroyed.
C28_Witness ==
    /\ stage = 4
    /\ Sharers(Mem, buffer[triple[3]]) = {}
    /\ array[buffer[triple[3]]] # None
    /\ sb_empty(Mem, buffer[triple[1]])
    /\ \E q \in connections[triple[1]] \ {triple[3]} :
           /\ array[buffer[q]] \notin {None, array[buffer[triple[3]]]}
           /\ Cardinality(refset[refs[buffer[q]]]) = 2

\* C29: Input.tick sets the state of the Input to Empty and changes nothing
\* else: the buffers, their arrays and refs sets, the data, the connections
\* and the other ports stay; a read after the tick of an Input that was
\* Filled returns the data that was pushed to it.
C29_DrainKeepsData ==
    [][/\ stage' = 3 =>
            /\ bufstate' = [bufstate EXCEPT ![triple'[3]] = empty]
            /\ UNCHANGED <<buffer, array, refs, refset, contents,
                           connections>>
       /\ stage' = 4 /\ triple[3] \in connections[triple[1]] =>
            /\ bufstate[triple[3]] = empty
            /\ call'.value = triple[2]
            /\ call'.result # None]_vars

\* A Filled Input was ticked and then read: the read returned the data the
\* Output had pushed, and the port is Empty with an empty buffer.
C29_Witness ==
    /\ stage = 4
    /\ triple[3] \in connections[triple[1]]
    /\ call.op = "read"
    /\ call.value = triple[2]
    /\ bufstate[triple[3]] = empty
    /\ sb_empty(Mem, buffer[triple[3]])

\* A port holds an array.
HoldsArray(p) == array[buffer[p]] # None

\* C30, as stated: the state of a port is Empty exactly when its buffer
\* holds no array.
C30_FlagAgreesWithBuffer ==
    \A p \in Ports :
        /\ bufstate[p] = empty <=> ~HoldsArray(p)
        /\ bufstate[p] \in {filled, ready_to_push} => HoldsArray(p)

\* What load, clear, read and tick make of the port p in the memory st.
\* load(b), for b None, any SampleBuffer there is or a new one made from a
\* new array, sets Filled or ReadyToPush, and p holds the array of b: none
\* when b is None, holds no array or is the buffer of p itself, which load
\* destroys before it shares it.  clear and read set Empty and leave p
\* without an array, and so does the tick of an Output.  The tick of an
\* Input sets Empty and leaves every SampleBuffer as it is.
OperationSetsFlag(st, c, p) ==
    /\ \A b \in {None} \cup Live(st, {}) :
           LET st1 == load(st, p, b) IN
               st1.ok =>
                   /\ st1.bufstate[p] = IF Kind(p) = "Input" THEN filled
                                        ELSE ready_to_push
                   /\ st1.array[st1.buffer[p]] =
                          IF b = None \/ b = st.buffer[p] THEN None
                          ELSE st.array[b]
    /\ LET a   == NewArray(st, {}, {})
           e   == NewHandle(st, {})
           st1 == load(from_array(st, e, a), p, e)
       IN  (a # 0 /\ e # 0 /\ st1.ok) =>
               /\ st1.bufstate[p] = IF Kind(p) = "Input" THEN filled
                                    ELSE ready_to_push
               /\ st1.array[st1.buffer[p]] = a
    /\ LET st1 == clear(st, p) IN
           st1.bufstate[p] = empty /\ st1.array[st1.buffer[p]] = None
    /\ LET st1 == read(st, p, {}) IN
           st1.ok => st1.bufstate[p] = empty /\ st1.array[st1.buffer[p]] = None
    /\ LET st1 == tick(st, c, p) IN
           IF Kind(p) = "Input"
               THEN /\ st1.bufstate[p] = empty
                    /\ st1.buffer = st.buffer
                    /\ st1.array = st.array
               ELSE st1.ok =>
                        /\ st1.bufstate[p] = empty
                        /\ st1.array[st1.buffer[p]] = None

\* What the array of the port p holds, None if p holds no array.
Held(bf, ar, ct, p) ==
    IF ar[bf[p]] = None THEN None ELSE ct[ar[bf[p]]]

\* The port p is Empty and holds an array after the step only if it was
\* Empty and held the same before, or it is an Input that was Filled and
\* held the same and the step is its tick or the tick of its device, or it
\* was Empty without an array, other SampleBuffers shared its buffer and
\* the step is buffer.prepare_to_modify() on it, which turns the None of a
\* shared buffer into the array that numpy.copy(None) makes.
EmptyWithArrayOnlyDrained(p) ==
    (bufstate'[p] = empty /\ array'[buffer'[p]] # None) =>
        \/ /\ bufstate[p] = empty
           /\ HoldsArray(p)
           /\ Held(buffer', array', contents', p) =
                  Held(buffer, array, contents, p)
        \/ /\ Kind(p) = "Input"
           /\ bufstate[p] = filled
           /\ HoldsArray(p)
           /\ Held(buffer', array', contents', p) =
                  Held(buffer, array, contents, p)
           /\ \/ Tick(p)
              \/ \E k \in Devices : input(k) = p /\ DeviceTick(k)
        \/ /\ bufstate[p] = empty
           /\ ~HoldsArray(p)
           /\ Cardinality(refset[refs[buffer[p]]]) > 1
           /\ PrepareToModify(p)
           /\ Held(buffer', array', contents', p) = NoneObject

\* C30, amended: the state of a port follows the last operation on it and
\* not what its buffer holds.  In every reachable state, load(b) leaves the
\* port Filled or ReadyToPush and holding the array of b, so with no array
\* when b is None, is a buffer without an array or is the port's own
\* buffer; clear, read and the tick of an Output leave it Empty without an
\* array; the tick of an Input leaves it Empty with its buffer untouched.
\* An Output that is Empty holds no array other than the one that
\* numpy.copy(None) makes, and after any step a port is Empty with an
\* array only if it was so before the step, or it is a Filled Input that
\* the step, its tick or the tick of its device, drains, or it is an Empty
\* port without an array and the step is buffer.prepare_to_modify() on its
\* buffer, which other SampleBuffers share.
C30_FlagFollowsOperation ==
    /\ [](\A p \in Ports : OperationSetsFlag(Mem, connections, p))
    /\ [](\A o \in Outputs :
             bufstate[o] = empty =>
                 Held(buffer, array, contents, o) \in {None, NoneObject})
    /\ [][\A p \in Ports : EmptyWithArrayOnlyDrained(p)]_vars

\* An Input was loaded and has ticked: it is Empty and holds the array,
\* and loading it with its own buffer would leave it Filled without one.
C30_Witness ==
    /\ call.op = "tick"
    /\ \E i \in Inputs :
           /\ bufstate[i] = empty
           /\ HoldsArray(i)
           /\ LET st1 == load(Mem, i, buffer[i]) IN
                  /\ st1.ok
                  /\ st1.bufstate[i] = filled
                  /\ st1.array[st1.buffer[i]] = None

\* C31: after p.load(b) for a buffer b that holds an array, b being the
\* buffer of any port and of p as well, p holds that array, and the buffer
\* p had before, which was destroyed, is in the refs set of no other
\* SampleBuffer: no SampleBuffer without an array shares a refs set.
C31_LoadReplaces ==
    stage = 3 =>
        /\ HoldsArray(triple[1])
        /\ array_value(Mem, array[buffer[triple[1]]]) = triple[2]
        /\ \A h \in Live(Mem, {}) :
               array[h] = None => refset[refs[h]] = {h}

\* The ports of ps have each other, and no one else, as connections.
CliqueOf(c, ps) == \A x \in ps : c[x] = ps \ {x}

\* No two Outputs are among the ports of ps.
KindAllows(ps) == Cardinality({x \in ps : Kind(x) = "Output"}) <= 1

\* C32: connect(a, b) for a port b without connections and a port a whose
\* group C is a clique ends without error when C with b holds at most one
\* Output, and makes C with b a clique; the other ports keep their
\* connections.  A port that was disconnected is connected in this way to
\* the Output of the group it joins.
C32_JoinClique ==
    [][stage' = 2 =>
         LET b == triple'[1]
             a == triple'[3]
             C == {a} \cup connections[a]
         IN  (connections[b] = {} /\ CliqueOf(connections, C)
              /\ KindAllows(C \cup {b})) =>
                 /\ call'.error = NoError
                 /\ CliqueOf(connections', C \cup {b})
                 /\ \A x \in Ports \ (C \cup {b}) :
                        connections'[x] = connections[x]]_vars

\* An Input that was taken out of a group has been connected to an Input
\* of another group and is connected to the Output of that group.
C32_Witness ==
    /\ stage = 2
    /\ call.error = NoError
    /\ Kind(triple[1]) = "Input" /\ Kind(triple[3]) = "Input"
    /\ triple[2] # {}
    /\ triple[3] \notin triple[2]
    /\ \E o \in Outputs \ triple[2] :
           /\ connected(connections, triple[1], o)
           /\ connected(connections, o, triple[1])
           /\ CliqueOf(connections, {o, triple[1], triple[3]})

\* C33: a chain a >> b that raises ConnectionError leaves the container of
\* every device and the subdevices of every DeviceCollection as they were.
C33_FailedChainCommitsNothing ==
    [][(call'.op = "rshift" /\ call'.error.class = "ConnectionError") =>
           /\ container' = container
           /\ subdevices' = subdevices]_vars

\* The number of times device k is registered in the collection cid.
Registered(subs, cid, k) ==
    Cardinality({i \in DOMAIN subs[cid] : subs[cid][i] = k})

\* After the step, a and b are in one collection, each registered once.
Together(a, b) ==
    /\ container'[a] # None
    /\ container'[a] = container'[b]
    /\ Registered(subdevices', container'[a], a) = 1
    /\ Registered(subdevices', container'[a], b) = 1

\* C34, as stated: after a chain a >> b that succeeds, a and b are
\* subdevices of one collection and each is registered in it once,
\* whatever collections they had before.
C34_ChainSharesCollection ==
    [][\A a \in Effects, b \in Devices :
          (Chain(a, b) /\ call'.error = NoError) => Together(a, b)]_vars

\* After the step, a and b are in one collection, and each of them is
\* registered in it once more than before if it had no collection, as
\* often as before if it had one.
Joined(a, b) ==
    /\ container'[a] # None
    /\ container'[a] = container'[b]
    /\ \A x \in {a, b} :
           /\ Registered(subdevices', container'[a], x) >= 1
           /\ Registered(subdevices', container'[a], x) =
                  Registered(subdevices, container'[a], x)
                      + (IF container[x] = None THEN 1 ELSE 0)

\* C34, amended: after a chain a >> b that succeeds, a and b are
\* subdevices of one collection when a or b had no collection before; the
\* one that had a collection keeps it, a new collection is made when
\* neither had one, and the call registers each of the two that had no
\* collection once, so that each is registered once unless it was put
\* into the collection with | before.  When both had a collection each
\* keeps its own and no collection changes.
C34_ChainSharesUnlessBothContained ==
    [][\A a \in Effects, b \in Devices :
          (Chain(a, b) /\ call'.error = NoError) =>
             /\ (container[a] = None \/ container[b] = None)
                   => Joined(a, b)
             /\ (container[a] = None \/ container[b] = None)
                   => \A x \in {a, b} :
                          Registered(subdevices, container'[a], x) = 0
                              => Registered(subdevices', container'[a], x) = 1
             /\ container[a] # None => container'[a] = container[a]
             /\ container[b] # None => container'[b] = container[b]
             /\ (container[a] = None /\ container[b] = None)
                   => subdevices[container'[a]] = <<>>
             /\ (container[a] # None /\ container[b] # None)
                   => /\ container' = container
                      /\ subdevices' = subdevices]_vars

\* Two devices are in one collection, each registered once, a third device
\* is in a collection of its own, and the Output of one of the two feeds
\* the Input of the other.
C34_Witness ==
    /\ call.op = "rshift"
    /\ call.error = NoError
    /\ \E a \in Effects, b \in Devices, d \in Devices :
           /\ a # b /\ d \notin {a, b}
           /\ container[a] # None
           /\ container[a] = container[b]
           /\ Registered(subdevices, container[a], a) = 1
           /\ Registered(subdevices, container[a], b) = 1
           /\ connected(connections, output(a), input(b))
           /\ container[d] \notin {None, container[a]}

\* C35: a MultiIO.connect(other), or a MultiIO.onconnect(other), that ends
\* with a ConnectionError has connected none of its ports to other: a port
\* of the MultiIO that was not connected to other before the call is not
\* connected to it after the call.
C35_MultiConnectAllOrNothing ==
    [][(stage' = 1 /\ IsConnectionError(call'.error)) =>
           \A io \in triple'[1] :
               connected(connections', io, triple'[2])
                   => connected(connections, io, triple'[2])]_vars

====
